---- MODULE Spec2Model ----
(*************************************************************************)
(* Model of oscilloscope_analyzer.py: the CSV parser, the waveform       *)
(* analysis (metrics, trigger detection, ringdown), the background       *)
(* worker with its finished signal, the pass/fail evaluation and the     *)
(* save of the main window, and the queries of the database manager.     *)
(*                                                                       *)
(* Python values are represented as follows.                             *)
(*   - float: an integer (every input token denotes an integer); the     *)
(*     results of sqrt, division and log are kept exact as the records   *)
(*     Surd, Rat and LogRatio below instead of being rounded.            *)
(*   - dict: a record with the source's keys; {} is the empty function.  *)
(*   - list: a sequence; Python index k is position k + 1.               *)
(*   - None: the record None.                                            *)
(*   - decay_constant: always of the form log(a / b) / n, the int 0 of   *)
(*     the source being log(1 / 1) / 1.                                  *)
(*   - a text line: the sequence of its comma-separated fields after     *)
(*     strip(); a blank line is the single empty field.                  *)
(*   - a text the database manager converts: the sequence of its         *)
(*     characters (Chars); lower, upper and replace work on those.       *)
(*************************************************************************)
EXTENDS Integers, Sequences, FiniteSets, TLC

VARIABLES
    lines,              \* load_csv_data: the lines read from the file
    trigger_threshold,  \* calculate_analysis: parameter
    data,               \* load_csv_data result / calculate_analysis parameter
    i,                  \* calculate_analysis: loop index of the trigger scan
    in_trigger,         \* calculate_analysis: hysteresis flag
    trigger_points,     \* calculate_analysis: events found so far
    analysis,           \* calculate_analysis: returned dict
    pc,                 \* position in the pipeline
    current_file_path,  \* OscilloscopeAnalyzer: the file chosen by load_file
    current_analysis,   \* OscilloscopeAnalyzer: None, {} or the last result
    spin,               \* the values of the QDoubleSpinBox widgets, by name
    test_type_combo,    \* currentText() of the test type combo box
    workers,            \* AnalysisWorker threads started and not yet run
    analysis_worker,    \* OscilloscopeAnalyzer: the worker started last
    events,             \* finished signals queued for the GUI thread
    last_finished,      \* the signal on_analysis_finished handled last
    widgets,            \* visibility, enabling and text of the widgets
    pass_fail_result,   \* update_results_display: the last evaluation
    dialog,             \* the text of the last QMessageBox, "" before any
    edits,              \* number of settings changes so far
    ringdown_values,    \* calculate_ringdown: parameter values
    ringdown,           \* calculate_ringdown: returned dict, or None before
    fields,             \* text() of the required QLineEdit widgets, by name
    db,                 \* the calls of DatabaseManager.save_analysis so far
    evaluations,        \* history: the calls of evaluate_pass_fail so far
    conn,               \* DatabaseManager.connect: whether it connected
    filters,            \* get_all_results: parameter filters
    all_results,        \* get_all_results: the rows returned
    summary             \* get_analytics_summary: returned dict, None before

pipevars == <<lines, trigger_threshold, data, i, in_trigger, trigger_points,
              analysis, pc>>

guivars == <<current_file_path, current_analysis, spin, test_type_combo,
             workers, analysis_worker, events, last_finished, widgets,
             pass_fail_result, dialog, edits>>

ringvars == <<ringdown_values, ringdown>>

savevars == <<fields, db, evaluations>>

datavars == <<conn, filters, all_results, summary>>

vars == <<pipevars, guivars, ringvars, savevars, datavars>>

-----------------------------------------------------------------------------
(* Bounds of the model *)

MaxLines == 4
MaxSamples == 5
MaxWorkers == 2
MaxEdits == 1
RingFileSamples == 60
MaxRingLen == 121
MaxEvaluations == 2
MaxRows == 3

-----------------------------------------------------------------------------
(* Python values *)

None == [none |-> TRUE]
EmptyDict == <<>>
ValueError == [exception |-> "ValueError"]

Truthy(d) == d # None /\ DOMAIN d # {}

Abs(v) == IF v < 0 THEN -v ELSE v

\* data[k] with Python's indexing: a negative k counts from the end
PyIndex(s, k) == IF k < 0 THEN s[Len(s) + k + 1] ELSE s[k + 1]

Range(s) == { s[k] : k \in DOMAIN s }

\* min(s) and max(s) of a non-empty list
MinOf(s) == CHOOSE m \in Range(s) : \A v \in Range(s) : m <= v
MaxOf(s) == CHOOSE m \in Range(s) : \A v \in Range(s) : m >= v

\* s[lo] + ... + s[hi], summed by halves
RECURSIVE SumRange(_, _, _)
SumRange(s, lo, hi) ==
    IF lo > hi THEN 0
    ELSE IF lo = hi THEN s[lo]
    ELSE SumRange(s, lo, (lo + hi) \div 2)
         + SumRange(s, (lo + hi) \div 2 + 1, hi)

SumOf(s) == SumRange(s, 1, Len(s))

\* sqrt(rad) / den, kept exact
Surd(rad, den) == [rad |-> rad, den |-> den]
\* num / den, kept exact
Rat(num, den) == [num |-> num, den |-> den]
\* log(a / b) / n, kept exact
LogRatio(a, b, n) == [log_of |-> Rat(a, b), over |-> n]
\* the number 0 where a LogRatio may stand: log(1 / 1) / 1
LogZero == LogRatio(1, 1, 1)

\* k <= sqrt(rad)/den and sqrt(rad)/den <= k for an integer k (den > 0)
IntLeqSurd(k, s) == k <= 0 \/ (k * s.den) * (k * s.den) <= s.rad
SurdLeqInt(s, k) == k >= 0 /\ s.rad <= (k * s.den) * (k * s.den)
SurdTimes(s, k) == Surd(s.rad * k * k, s.den)

-----------------------------------------------------------------------------
(* load_csv_data *)

MaxNum == 70
HEADER == <<"TIME", "CH1", "CH2">>

\* float(text): the texts float() accepts and the numbers they denote
Numerals == [n \in -MaxNum..MaxNum |-> ToString(n)]
FloatTable ==
    [text \in { Numerals[n] : n \in -MaxNum..MaxNum } |->
        CHOOSE n \in -MaxNum..MaxNum : Numerals[n] = text]
    @@ (" 1" :> 1) @@ ("1.0" :> 1) @@ ("2e0" :> 2)
\* float(text) does not raise ValueError
IsFloat(text) == text \in DOMAIN FloatTable
float(text) == FloatTable[text]

\* 'TIME,CH1,CH2' in line: the marker is a substring of the joined fields
EndsWithTIME(f) == f \in {"TIME", "xTIME"}
StartsWithCH2(f) == f \in {"CH2", "CH2x", "CH2 "}
ContainsHeader(line) ==
    \E k \in 1..(Len(line) - 2) :
        /\ EndsWithTIME(line[k])
        /\ line[k + 1] = "CH1"
        /\ StartsWithCH2(line[k + 2])

\* a search whose data_start stays 0 when no line contains the marker
RECURSIVE FindHeaderDefaultZero(_, _)
FindHeaderDefaultZero(ls, k) ==
    IF k >= Len(ls) THEN 0
    ELSE IF ContainsHeader(PyIndex(ls, k)) THEN k
    ELSE FindHeaderDefaultZero(ls, k + 1)

\* the first index (Python) of a line containing the marker, or -1
RECURSIVE FindHeader(_, _)
FindHeader(ls, k) ==
    IF k >= Len(ls) THEN -1
    ELSE IF ContainsHeader(PyIndex(ls, k)) THEN k
    ELSE FindHeader(ls, k + 1)

IsBlank(line) == line = <<"">>

\* a row loop that takes rows of exactly three fields only
ParseRowExactly3(acc, line) ==
    IF IsBlank(line) THEN acc
    ELSE IF Len(line) = 3
         THEN IF IsFloat(line[1]) /\ IsFloat(line[2]) /\ IsFloat(line[3])
              THEN Append(acc, [time |-> float(line[1]) * 1000,
                                ch1 |-> float(line[2]),
                                ch2 |-> float(line[3])])
              ELSE acc
         ELSE acc

\* one iteration of the row loop: data after looking at line
ParseRow(acc, line) ==
    IF IsBlank(line) THEN acc
    ELSE IF Len(line) >= 3
         THEN IF IsFloat(line[1]) /\ IsFloat(line[2]) /\ IsFloat(line[3])
              THEN Append(acc, [time |-> float(line[1]) * 1000,
                                ch1 |-> float(line[2]),
                                ch2 |-> float(line[3])])
              ELSE acc
         ELSE acc

\* the row loop over ls[lo..hi]: the rows appended, in order (each row
\* appends independently of the rows before it, so halves are concatenated)
RECURSIVE ParseRows(_, _, _)
ParseRows(ls, lo, hi) ==
    IF lo > hi THEN <<>>
    ELSE IF lo = hi THEN ParseRow(<<>>, ls[lo])
    ELSE ParseRows(ls, lo, (lo + hi) \div 2)
         \o ParseRows(ls, (lo + hi) \div 2 + 1, hi)

\* the list of samples, or ValueError when no header line exists
load_csv_data(ls) ==
    LET data_start == FindHeader(ls, 0) IN
    IF data_start = -1 THEN ValueError
    ELSE ParseRows(ls, data_start + 2, Len(ls))

-----------------------------------------------------------------------------
(* calculate_ringdown *)

\* an estimator that accepts one sample fewer
RingMinSamplesOneLess == 50 - 1

\* len(values) < 50
RingMinSamples == 50

\* an estimator that asks for one more sample behind the peak
RingTailOneMore == 20 + 1

\* an estimator that asks for one sample fewer behind the peak
RingTailOneLess == 20 - 1

\* max_idx >= len(values) - 20
RingTail == 20
RingWindow == 100

NoRingdown == [ringdown_voltage |-> 0, decay_constant |-> LogZero]

\* magnitudes taken with their sign
AbsValuesSigned(values) == [k \in 1..Len(values) |-> values[k]]

\* abs_values = [abs(v) for v in values]
AbsValues(values) == [k \in 1..Len(values) |-> Abs(values[k])]

\* abs_values.index(max(abs_values)): Python index of the first maximum
IndexOfMax(abs_values) ==
    LET m == MaxOf(abs_values)
        first == CHOOSE k \in 1..Len(abs_values) :
                    /\ abs_values[k] = m
                    /\ \A j \in 1..(k - 1) : abs_values[j] # m
    IN first - 1

Min2(a, b) == IF a <= b THEN a ELSE b

\* values[lo:hi] for 0 <= lo
Slice(values, lo, hi) == SubSeq(values, lo + 1, Min2(hi, Len(values)))

\* an estimator that takes the log ratio whenever the amplitude falls,
\* without looking at the sign of the final amplitude
calculate_ringdown_final_unchecked(values) ==
    IF Len(values) < RingMinSamples THEN NoRingdown
    ELSE LET max_idx == IndexOfMax(AbsValues(values)) IN
         IF max_idx >= Len(values) - RingTail THEN NoRingdown
         ELSE LET decay_segment ==
                      Slice(values, max_idx,
                            Min2(max_idx + RingWindow, Len(values)))
                  initial_amp == Abs(decay_segment[1])
                  final_amp == Abs(decay_segment[Len(decay_segment)])
              IN [ringdown_voltage |-> (initial_amp - final_amp) * 1000,
                  decay_constant |->
                      IF initial_amp > final_amp
                      THEN LogRatio(initial_amp, final_amp,
                                    Len(decay_segment))
                      ELSE LogZero]

\* a window that starts behind the peak
DecaySegmentAfterPeak(values, max_idx) ==
    Slice(values, max_idx + 1, Min2(max_idx + 1 + RingWindow, Len(values)))

\* values[max_idx:min(max_idx + 100, len(values))]
DecaySegment(values, max_idx) ==
    Slice(values, max_idx, Min2(max_idx + RingWindow, Len(values)))

calculate_ringdown(values) ==
    IF Len(values) < RingMinSamples THEN NoRingdown
    ELSE LET max_idx == IndexOfMax(AbsValues(values)) IN
         IF max_idx >= Len(values) - RingTail THEN NoRingdown
         ELSE LET decay_segment == DecaySegment(values, max_idx)
                  initial_amp == Abs(decay_segment[1])
                  final_amp == Abs(decay_segment[Len(decay_segment)])
              IN [ringdown_voltage |-> (initial_amp - final_amp) * 1000,
                  decay_constant |->
                      IF initial_amp > final_amp /\ final_amp > 0
                      THEN LogRatio(initial_amp, final_amp,
                                    Len(decay_segment))
                      ELSE LogZero]

-----------------------------------------------------------------------------
(* calculate_analysis *)

\* a scan that starts at the first sample
ScanStartAtZero == 1 - 1

\* range(1, len(data))
ScanStart == 1

\* a scan that fires on the level of the current sample alone, without
\* looking at the previous sample
TrigIterNoPrev(d, thr, st, k) ==
    LET current_current == Abs(PyIndex(d, k).ch2) IN
    IF ~st.in_trigger /\ current_current > thr
    THEN [trigger_points |->
              Append(st.trigger_points,
                     [time |-> PyIndex(d, k).time, index |-> k,
                      current |-> PyIndex(d, k).ch2]),
          in_trigger |-> TRUE]
    ELSE IF st.in_trigger /\ current_current <= thr
         THEN [st EXCEPT !.in_trigger = FALSE]
         ELSE st

\* a level-triggered scan: every sample above the threshold is an event
TrigIterLevel(d, thr, st, k) ==
    LET current_current == Abs(PyIndex(d, k).ch2) IN
    IF current_current > thr
    THEN [trigger_points |->
              Append(st.trigger_points,
                     [time |-> PyIndex(d, k).time, index |-> k,
                      current |-> PyIndex(d, k).ch2]),
          in_trigger |-> TRUE]
    ELSE [st EXCEPT !.in_trigger = FALSE]

\* a scan that puts the newest event first
TrigIterPrepend(d, thr, st, k) ==
    LET prev_current == Abs(PyIndex(d, k - 1).ch2)
        current_current == Abs(PyIndex(d, k).ch2)
    IN
    IF ~st.in_trigger /\ current_current > thr /\ prev_current <= thr
    THEN [trigger_points |->
              <<[time |-> PyIndex(d, k).time, index |-> k,
                 current |-> PyIndex(d, k).ch2]>> \o st.trigger_points,
          in_trigger |-> TRUE]
    ELSE IF st.in_trigger /\ current_current <= thr
         THEN [st EXCEPT !.in_trigger = FALSE]
         ELSE st

\* a loop body that never leaves the triggered state
TrigIterNoRelease(d, thr, st, k) ==
    LET prev_current == Abs(PyIndex(d, k - 1).ch2)
        current_current == Abs(PyIndex(d, k).ch2)
    IN
    IF ~st.in_trigger /\ current_current > thr /\ prev_current <= thr
    THEN [trigger_points |->
              Append(st.trigger_points,
                     [time |-> PyIndex(d, k).time, index |-> k,
                      current |-> PyIndex(d, k).ch2]),
          in_trigger |-> TRUE]
    ELSE st

\* a loop body that stores the magnitude of the sample in the event
TrigIterMagnitude(d, thr, st, k) ==
    LET prev_current == Abs(PyIndex(d, k - 1).ch2)
        current_current == Abs(PyIndex(d, k).ch2)
    IN
    IF ~st.in_trigger /\ current_current > thr /\ prev_current <= thr
    THEN [trigger_points |->
              Append(st.trigger_points,
                     [time |-> PyIndex(d, k).time, index |-> k,
                      current |-> current_current]),
          in_trigger |-> TRUE]
    ELSE IF st.in_trigger /\ current_current <= thr
         THEN [st EXCEPT !.in_trigger = FALSE]
         ELSE st

\* the body of the trigger loop at Python index k
TrigIter(d, thr, st, k) ==
    LET prev_current == Abs(PyIndex(d, k - 1).ch2)
        current_current == Abs(PyIndex(d, k).ch2)
    IN
    IF ~st.in_trigger /\ current_current > thr /\ prev_current <= thr
    THEN [trigger_points |->
              Append(st.trigger_points,
                     [time |-> PyIndex(d, k).time, index |-> k,
                      current |-> PyIndex(d, k).ch2]),
          in_trigger |-> TRUE]
    ELSE IF st.in_trigger /\ current_current <= thr
         THEN [st EXCEPT !.in_trigger = FALSE]
         ELSE st

\* for i in range(lo, hi): the loop state after these iterations. The
\* iterations of the first half are run before those of the second; the
\* test on the state of the first half makes TLC compute it beforehand.
RECURSIVE ScanRange(_, _, _, _, _)
ScanRange(d, thr, st, lo, hi) ==
    IF lo >= hi THEN st
    ELSE IF hi - lo = 1 THEN TrigIter(d, thr, st, lo)
    ELSE LET first == ScanRange(d, thr, st, lo, (lo + hi) \div 2) IN
         IF first.in_trigger \in BOOLEAN
         THEN ScanRange(d, thr, first, (lo + hi) \div 2, hi)
         ELSE first

ScanInit == [trigger_points |-> <<>>, in_trigger |-> FALSE]

DetectTriggers(d, thr) ==
    ScanRange(d, thr, ScanInit, ScanStart, Len(d)).trigger_points

Column(d, key) == [k \in 1..Len(d) |-> d[k][key]]
Squares(values) == [k \in 1..Len(values) |-> values[k] * values[k]]

\* sqrt(mean(v**2))
Rms(values) == Surd(Len(values) * SumOf(Squares(values)), Len(values))
\* np.std(values): population standard deviation
Std(values) ==
    Surd(Len(values) * SumOf(Squares(values))
             - SumOf(values) * SumOf(values),
         Len(values))

\* a sample rate computed without the test on the duration
SampleRateUnguarded(times) ==
    IF Len(times) > 1
    THEN LET duration == MaxOf(times) - MinOf(times) IN
         Rat(Len(times) * 1000, duration)
    ELSE Rat(0, 1)

SampleRate(times) ==
    IF Len(times) > 1
    THEN LET duration == MaxOf(times) - MinOf(times) IN
         IF duration > 0 THEN Rat(Len(times) * 1000, duration) ELSE Rat(0, 1)
    ELSE Rat(0, 1)

\* a dict whose channel-1 peak-to-peak is left in volts
AnalysisDictPeakInVolts(d, thr, points) ==
    LET times == Column(d, "time")
        ch1_values == Column(d, "ch1")
        ch2_values == Column(d, "ch2")
    IN [raw_data |-> d,
        ch1 |-> [min |-> MinOf(ch1_values),
                 max |-> MaxOf(ch1_values),
                 peak_to_peak |-> MaxOf(ch1_values) - MinOf(ch1_values),
                 rms |-> Rms(ch1_values),
                 noise |-> SurdTimes(Std(ch1_values), 1000),
                 ringdown |-> calculate_ringdown(ch1_values)],
        ch2 |-> [min |-> MinOf(ch2_values),
                 max |-> MaxOf(ch2_values),
                 peak_to_peak |-> MaxOf(ch2_values) - MinOf(ch2_values),
                 rms |-> Rms(ch2_values)],
        trigger |-> [threshold |-> thr,
                     points |-> points,
                     count |-> Len(points)],
        metadata |-> [data_points |-> Len(d),
                      sample_rate |-> SampleRate(times),
                      duration |-> MaxOf(times) - MinOf(times),
                      time_start |-> MinOf(times),
                      time_end |-> MaxOf(times)]]

\* the dict calculate_analysis builds for non-empty data, given the events
AnalysisDict(d, thr, points) ==
    LET times == Column(d, "time")
        ch1_values == Column(d, "ch1")
        ch2_values == Column(d, "ch2")
    IN [raw_data |-> d,
        ch1 |-> [min |-> MinOf(ch1_values),
                 max |-> MaxOf(ch1_values),
                 peak_to_peak |->
                     (MaxOf(ch1_values) - MinOf(ch1_values)) * 1000,
                 rms |-> Rms(ch1_values),
                 noise |-> SurdTimes(Std(ch1_values), 1000),
                 ringdown |-> calculate_ringdown(ch1_values)],
        ch2 |-> [min |-> MinOf(ch2_values),
                 max |-> MaxOf(ch2_values),
                 peak_to_peak |-> MaxOf(ch2_values) - MinOf(ch2_values),
                 rms |-> Rms(ch2_values)],
        trigger |-> [threshold |-> thr,
                     points |-> points,
                     count |-> Len(points)],
        metadata |-> [data_points |-> Len(d),
                      sample_rate |-> SampleRate(times),
                      duration |-> MaxOf(times) - MinOf(times),
                      time_start |-> MinOf(times),
                      time_end |-> MaxOf(times)]]

calculate_analysis(d, thr) ==
    IF d = <<>> THEN EmptyDict
    ELSE AnalysisDict(d, thr, DetectTriggers(d, thr))

-----------------------------------------------------------------------------
(* The pipeline, one step at a time: load_csv_data, then calculate_analysis *)
(* with its trigger loop unrolled into one step per iteration.             *)

LoadCsvData ==
    /\ pc = "load"
    /\ IF FindHeader(lines, 0) = -1
       THEN /\ pc' = "raised"
            /\ data' = data
       ELSE /\ pc' = "calc"
            /\ data' = load_csv_data(lines)
    /\ UNCHANGED <<lines, trigger_threshold, i, in_trigger, trigger_points,
                   analysis>>
    /\ UNCHANGED guivars
    /\ UNCHANGED ringvars
    /\ UNCHANGED savevars
    /\ UNCHANGED datavars

CalcBegin ==
    /\ pc = "calc"
    /\ IF data = <<>>
       THEN /\ analysis' = EmptyDict
            /\ pc' = "done"
            /\ UNCHANGED <<i, in_trigger, trigger_points>>
       ELSE /\ trigger_points' = ScanInit.trigger_points
            /\ in_trigger' = ScanInit.in_trigger
            /\ i' = ScanStart
            /\ pc' = "scan"
            /\ UNCHANGED analysis
    /\ UNCHANGED <<lines, trigger_threshold, data>>
    /\ UNCHANGED guivars
    /\ UNCHANGED ringvars
    /\ UNCHANGED savevars
    /\ UNCHANGED datavars

ScanStep ==
    /\ pc = "scan"
    /\ i < Len(data)
    /\ LET st == TrigIter(data, trigger_threshold,
                          [trigger_points |-> trigger_points,
                           in_trigger |-> in_trigger], i)
       IN /\ trigger_points' = st.trigger_points
          /\ in_trigger' = st.in_trigger
    /\ i' = i + 1
    /\ UNCHANGED <<lines, trigger_threshold, data, analysis, pc>>
    /\ UNCHANGED guivars
    /\ UNCHANGED ringvars
    /\ UNCHANGED savevars
    /\ UNCHANGED datavars

CalcEnd ==
    /\ pc = "scan"
    /\ i >= Len(data)
    /\ analysis' = AnalysisDict(data, trigger_threshold, trigger_points)
    /\ pc' = "done"
    /\ UNCHANGED <<lines, trigger_threshold, data, i, in_trigger,
                   trigger_points>>
    /\ UNCHANGED guivars
    /\ UNCHANGED ringvars
    /\ UNCHANGED savevars
    /\ UNCHANGED datavars

-----------------------------------------------------------------------------
(* Inputs *)

Thresholds == {1, 2}
Ch2Values == {0, 2, -2, 3}

\* time columns (ms) of n samples: rising, constant, falling, alternating
TimeColumns(n) ==
    { [k \in 1..n |-> (k - 1) * 1000],
      [k \in 1..n |-> 0],
      [k \in 1..n |-> (n - k) * 1000],
      [k \in 1..n |-> ((k - 1) % 2) * 1000] }

\* the n samples with the time column t and the channel-2 column c
SampleSeq(n, t, c) ==
    [k \in 1..n |-> [time |-> t[k], ch1 |-> 0, ch2 |-> c[k]]]

LineSet ==
    { HEADER,
      <<"xTIME", "CH1", "CH2x">>,
      <<"TIME", "CH1", "CH2", "CH3">>,
      <<"">>,
      <<"1", "2">>,
      <<"1", "abc", "2">>,
      <<"2", "1.0", "">>,
      <<"0", "1", "0">>,
      <<"1", "0", "3">>,
      <<" 1", "2e0", "-2", "x">> }

Files == UNION { [1..n -> LineSet] : n \in 0..MaxLines }

-----------------------------------------------------------------------------
(* The files on disk *)

\* a capture of RingFileSamples rows whose channel 1 peaks at its 6th row
RingRows ==
    [k \in 1..RingFileSamples |->
        <<Numerals[k - 1], IF k = 6 THEN "2" ELSE "1", "0">>]

DiskFiles ==
    [no_header |-> << <<"Model", "X">>, <<"0", "1", "0">>, <<"1", "0", "3">> >>,
     header_only |-> << <<"Model", "X">>, HEADER, <<"">>, <<"1", "abc", "2">> >>,
     capture |-> << <<"Model", "X">>, HEADER, <<"0", "1", "0">>,
                    <<"1", "0", "3">> >>,
     ring |-> <<HEADER>> \o RingRows]

\* the paths load_file is given
Paths == {"no_header", "header_only", "capture"}

-----------------------------------------------------------------------------
(* AnalysisWorker.run *)

\* the dict run() passes to finished.emit
run(file_path, trigger_current) ==
    IF file_path \notin DOMAIN DiskFiles THEN EmptyDict
    ELSE IF FindHeader(DiskFiles[file_path], 0) = -1 THEN EmptyDict
    ELSE calculate_analysis(load_csv_data(DiskFiles[file_path]),
                            trigger_current)

-----------------------------------------------------------------------------
(* OscilloscopeAnalyzer *)

test_type_configs ==
    [t \in {"DTT", "DTR", "DC03 Skid"} |-> [name |-> t, has_ringdown |-> FALSE]]
    @@ ("DC02" :> [name |-> "DC02", has_ringdown |-> TRUE])
    @@ ("IDOD" :> [name |-> "IDOD", has_ringdown |-> FALSE,
                   has_skid_plate |-> TRUE])

\* dict.get(key, default)
Get(dict, key, default) == IF key \in DOMAIN dict THEN dict[key] ELSE default

\* setValue() of each spin box in setup_ui
SpinDefaults ==
    [trigger_current_spin |-> 1,
     peak_lsl_spin |-> 150, peak_usl_spin |-> 400,
     trigger_lsl_spin |-> 30, trigger_usl_spin |-> 80,
     noise_lsl_spin |-> 0, noise_usl_spin |-> 5,
     ringdown_lsl_spin |-> 0, ringdown_usl_spin |-> 100]

\* the values a user sets a spin box to (all inside its setRange)
SpinValues ==
    [trigger_current_spin |-> Thresholds,
     peak_lsl_spin |-> {150, 1000}, peak_usl_spin |-> {400, 1000},
     trigger_lsl_spin |-> {30, 2}, trigger_usl_spin |-> {80, 2},
     noise_lsl_spin |-> {0, 500}, noise_usl_spin |-> {5, 500},
     ringdown_lsl_spin |-> {0, 1000}, ringdown_usl_spin |-> {100, 1000}]

\* the spin boxes a user edits between analyses
EditedSpins == {"trigger_current_spin", "peak_usl_spin", "ringdown_lsl_spin"}

Unknown == [overall |-> "unknown", details |-> EmptyDict]

\* evaluate_pass_fail with strict comparisons
evaluate_pass_fail_strict(ca, sp, test_type) ==
    IF ~Truthy(ca) THEN Unknown
    ELSE LET ch1 == Get(ca, "ch1", EmptyDict)
             peak == Get(ch1, "peak_to_peak", 0)
             noise == Get(ch1, "noise", Surd(0, 1))
             ringdown_voltage ==
                 Get(Get(ch1, "ringdown", EmptyDict), "ringdown_voltage", 0)
             results ==
                 [peak_to_peak |->
                      sp.peak_lsl_spin < peak /\ peak < sp.peak_usl_spin,
                  trigger_current |->
                      /\ sp.trigger_lsl_spin < sp.trigger_current_spin
                      /\ sp.trigger_current_spin < sp.trigger_usl_spin,
                  noise |->
                      /\ ~SurdLeqInt(noise, sp.noise_lsl_spin)
                      /\ ~IntLeqSurd(sp.noise_usl_spin, noise),
                  ringdown |->
                      IF Get(test_type_configs[test_type], "has_ringdown",
                             FALSE)
                      THEN /\ sp.ringdown_lsl_spin < ringdown_voltage
                           /\ ringdown_voltage < sp.ringdown_usl_spin
                      ELSE TRUE]
         IN [overall |-> IF \A c \in DOMAIN results : results[c]
                         THEN "pass" ELSE "fail",
             details |-> results]

\* evaluate_pass_fail that compares the ringdown voltage for every test type
evaluate_pass_fail_always_ringdown(ca, sp, test_type) ==
    IF ~Truthy(ca) THEN Unknown
    ELSE LET ch1 == Get(ca, "ch1", EmptyDict)
             peak == Get(ch1, "peak_to_peak", 0)
             noise == Get(ch1, "noise", Surd(0, 1))
             ringdown_voltage ==
                 Get(Get(ch1, "ringdown", EmptyDict), "ringdown_voltage", 0)
             results ==
                 [peak_to_peak |->
                      sp.peak_lsl_spin <= peak /\ peak <= sp.peak_usl_spin,
                  trigger_current |->
                      /\ sp.trigger_lsl_spin <= sp.trigger_current_spin
                      /\ sp.trigger_current_spin <= sp.trigger_usl_spin,
                  noise |->
                      /\ IntLeqSurd(sp.noise_lsl_spin, noise)
                      /\ SurdLeqInt(noise, sp.noise_usl_spin),
                  ringdown |->
                      /\ sp.ringdown_lsl_spin <= ringdown_voltage
                      /\ ringdown_voltage <= sp.ringdown_usl_spin]
         IN [overall |-> IF \A c \in DOMAIN results : results[c]
                         THEN "pass" ELSE "fail",
             details |-> results]

\* evaluate_pass_fail whose overall verdict leaves the ringdown result out
evaluate_pass_fail_overall_without_ringdown(ca, sp, test_type) ==
    IF ~Truthy(ca) THEN Unknown
    ELSE LET ch1 == Get(ca, "ch1", EmptyDict)
             peak == Get(ch1, "peak_to_peak", 0)
             noise == Get(ch1, "noise", Surd(0, 1))
             ringdown_voltage ==
                 Get(Get(ch1, "ringdown", EmptyDict), "ringdown_voltage", 0)
             results ==
                 [peak_to_peak |->
                      sp.peak_lsl_spin <= peak /\ peak <= sp.peak_usl_spin,
                  trigger_current |->
                      /\ sp.trigger_lsl_spin <= sp.trigger_current_spin
                      /\ sp.trigger_current_spin <= sp.trigger_usl_spin,
                  noise |->
                      /\ IntLeqSurd(sp.noise_lsl_spin, noise)
                      /\ SurdLeqInt(noise, sp.noise_usl_spin),
                  ringdown |->
                      IF Get(test_type_configs[test_type], "has_ringdown",
                             FALSE)
                      THEN /\ sp.ringdown_lsl_spin <= ringdown_voltage
                           /\ ringdown_voltage <= sp.ringdown_usl_spin
                      ELSE TRUE]
         IN [overall |-> IF \A c \in DOMAIN results \ {"ringdown"} : results[c]
                         THEN "pass" ELSE "fail",
             details |-> results]

\* an evaluation that answers unknown until a verdict has been shown once
evaluate_pass_fail_unknown_at_first(ca, sp, test_type) ==
    IF ~Truthy(ca) \/ pass_fail_result = None THEN Unknown
    ELSE LET ch1 == Get(ca, "ch1", EmptyDict)
             peak == Get(ch1, "peak_to_peak", 0)
             noise == Get(ch1, "noise", Surd(0, 1))
             ringdown_voltage ==
                 Get(Get(ch1, "ringdown", EmptyDict), "ringdown_voltage", 0)
             results ==
                 [peak_to_peak |->
                      sp.peak_lsl_spin <= peak /\ peak <= sp.peak_usl_spin,
                  trigger_current |->
                      /\ sp.trigger_lsl_spin <= sp.trigger_current_spin
                      /\ sp.trigger_current_spin <= sp.trigger_usl_spin,
                  noise |->
                      /\ IntLeqSurd(sp.noise_lsl_spin, noise)
                      /\ SurdLeqInt(noise, sp.noise_usl_spin),
                  ringdown |->
                      IF Get(test_type_configs[test_type], "has_ringdown",
                             FALSE)
                      THEN /\ sp.ringdown_lsl_spin <= ringdown_voltage
                           /\ ringdown_voltage <= sp.ringdown_usl_spin
                      ELSE TRUE]
         IN [overall |-> IF \A c \in DOMAIN results : results[c]
                         THEN "pass" ELSE "fail",
             details |-> results]

\* evaluate_pass_fail on the analysis ca, the spin values sp and the test type
evaluate_pass_fail(ca, sp, test_type) ==
    IF ~Truthy(ca) THEN Unknown
    ELSE LET ch1 == Get(ca, "ch1", EmptyDict)
             peak == Get(ch1, "peak_to_peak", 0)
             noise == Get(ch1, "noise", Surd(0, 1))
             ringdown_voltage ==
                 Get(Get(ch1, "ringdown", EmptyDict), "ringdown_voltage", 0)
             results ==
                 [peak_to_peak |->
                      sp.peak_lsl_spin <= peak /\ peak <= sp.peak_usl_spin,
                  trigger_current |->
                      /\ sp.trigger_lsl_spin <= sp.trigger_current_spin
                      /\ sp.trigger_current_spin <= sp.trigger_usl_spin,
                  noise |->
                      /\ IntLeqSurd(sp.noise_lsl_spin, noise)
                      /\ SurdLeqInt(noise, sp.noise_usl_spin),
                  ringdown |->
                      IF Get(test_type_configs[test_type], "has_ringdown",
                             FALSE)
                      THEN /\ sp.ringdown_lsl_spin <= ringdown_voltage
                           /\ ringdown_voltage <= sp.ringdown_usl_spin
                      ELSE TRUE]
         IN [overall |-> IF \A c \in DOMAIN results : results[c]
                         THEN "pass" ELSE "fail",
             details |-> results]

\* the label update_results_display sets from the verdict
LabelOf(result) ==
    IF result.overall = "pass" THEN "Status: PASS" ELSE "Status: FAIL"

\* no QMessageBox has been shown yet
NoDialog == ""

WidgetsInit ==
    [progress_bar |-> FALSE, analyze_btn |-> FALSE, save_btn |-> FALSE,
     skid_plate |-> FALSE, pass_fail_label |-> "Status: Not Analyzed"]

GuiInit ==
    /\ current_file_path = None
    /\ current_analysis = None
    /\ spin = SpinDefaults
    /\ test_type_combo = "DTT"
    /\ workers = <<>>
    /\ analysis_worker = None
    /\ events = <<>>
    /\ last_finished = None
    /\ widgets = WidgetsInit
    /\ pass_fail_result = None
    /\ dialog = NoDialog
    /\ edits = 0

\* no call of calculate_ringdown is being followed
RingIdle ==
    /\ ringdown_values = <<>>
    /\ ringdown = None

\* the required fields as setup_ui leaves them
FieldsInit ==
    [test_number_edit |-> "", test_bench_edit |-> "", tester_id_edit |-> ""]

\* one call of evaluate_pass_fail: the values it read and the dict it returned
Call(by, ca, sp, test_type, result) ==
    [by |-> by,
     analysis |-> ca,
     limits |-> [peak |-> <<sp.peak_lsl_spin, sp.peak_usl_spin>>,
                 trigger |-> <<sp.trigger_lsl_spin, sp.trigger_usl_spin>>,
                 noise |-> <<sp.noise_lsl_spin, sp.noise_usl_spin>>,
                 ringdown |-> <<sp.ringdown_lsl_spin, sp.ringdown_usl_spin>>],
     trigger_current |-> sp.trigger_current_spin,
     test_type |-> test_type,
     requires_ringdown |->
         Get(test_type_configs[test_type], "has_ringdown", FALSE),
     result |-> result]

\* the history with one more call, when calls are being recorded
Recorded(call) ==
    IF evaluations.recording
    THEN [evaluations EXCEPT !.calls = Append(@, call)]
    ELSE evaluations

\* no query of the database is being followed
DataIdle ==
    /\ conn = FALSE
    /\ filters = EmptyDict
    /\ all_results = <<>>
    /\ summary = None

\* nothing typed, nothing saved, and no history kept
SaveIdle ==
    /\ fields = FieldsInit
    /\ db = <<>>
    /\ evaluations = [recording |-> FALSE, calls |-> <<>>]

\* the application is running its event loop (it has not been aborted)
EventLoop == pc = "gui"

\* load_file: the dialog returns a path (a cancelled dialog changes nothing)
LoadFile(file_path) ==
    /\ EventLoop
    /\ current_file_path' = [path |-> file_path]
    /\ widgets' = [widgets EXCEPT !.analyze_btn = TRUE]
    /\ UNCHANGED analysis_worker
    /\ UNCHANGED <<current_analysis, spin, test_type_combo, workers, events,
                   last_finished, pass_fail_result, dialog, edits>>
    /\ UNCHANGED pipevars
    /\ UNCHANGED ringvars
    /\ UNCHANGED savevars
    /\ UNCHANGED datavars

\* the worker analysis_worker refers to has been started and has not emitted
LatestStillRunning ==
    /\ workers # <<>>
    /\ workers[Len(workers)] = analysis_worker

\* analyze_data: a click on the enabled Analyze button starts a worker.
\* The assignment to self.analysis_worker drops the only reference to the
\* worker started before; when that thread is still running, the QThread
\* is either kept alive by the frame of its run() and emits later, or it
\* is destroyed while running, which aborts the process.
AnalyzeData ==
    /\ EventLoop
    /\ widgets.analyze_btn
    /\ Len(workers) + Len(events) < MaxWorkers
    /\ IF current_file_path = None
       THEN /\ dialog' = "Please load a CSV file first."
            /\ UNCHANGED <<widgets, workers, analysis_worker, pc>>
       ELSE \/ /\ widgets' = [widgets EXCEPT !.progress_bar = TRUE]
               /\ analysis_worker' =
                      [file_path |-> current_file_path.path,
                       trigger_current |-> spin.trigger_current_spin]
               /\ workers' = Append(workers, analysis_worker')
               /\ UNCHANGED <<dialog, pc>>
            \/ /\ LatestStillRunning
               /\ pc' = "aborted"
               /\ UNCHANGED <<widgets, workers, analysis_worker, dialog>>
    /\ UNCHANGED <<current_file_path, current_analysis, spin, test_type_combo,
                   events, last_finished, pass_fail_result, edits>>
    /\ UNCHANGED <<lines, trigger_threshold, data, i, in_trigger,
                   trigger_points, analysis>>
    /\ UNCHANGED ringvars
    /\ UNCHANGED savevars
    /\ UNCHANGED datavars

\* AnalysisWorker.run of the w-th waiting worker, up to finished.emit
WorkerRun(w) ==
    /\ EventLoop
    /\ w \in DOMAIN workers
    /\ events' =
           Append(events,
                  [sender |-> workers[w],
                   analysis_data |-> run(workers[w].file_path,
                                         workers[w].trigger_current)])
    /\ workers' = [k \in 1..(Len(workers) - 1) |->
                      IF k < w THEN workers[k] ELSE workers[k + 1]]
    /\ UNCHANGED analysis_worker
    /\ UNCHANGED <<current_file_path, current_analysis, spin, test_type_combo,
                   last_finished, widgets, pass_fail_result, dialog, edits>>
    /\ UNCHANGED pipevars
    /\ UNCHANGED ringvars
    /\ UNCHANGED savevars
    /\ UNCHANGED datavars

\* on_analysis_finished for the oldest queued signal, with
\* update_results_display when the dict is not empty
OnAnalysisFinished ==
    /\ EventLoop
    /\ events # <<>>
    /\ Len(evaluations.calls) < MaxEvaluations
    /\ LET analysis_data == Head(events).analysis_data IN
       /\ current_analysis' = analysis_data
       /\ IF ~Truthy(analysis_data)
          THEN /\ dialog' = "Failed to analyze data."
               /\ widgets' = [widgets EXCEPT !.progress_bar = FALSE]
               /\ UNCHANGED pass_fail_result
               /\ UNCHANGED evaluations
          ELSE /\ pass_fail_result' =
                      evaluate_pass_fail(analysis_data, spin, test_type_combo)
               /\ widgets' =
                      [widgets EXCEPT
                          !.progress_bar = FALSE,
                          !.pass_fail_label = LabelOf(pass_fail_result'),
                          !.save_btn = TRUE]
               /\ UNCHANGED dialog
               /\ evaluations' =
                      Recorded(Call("display", analysis_data, spin,
                                    test_type_combo, pass_fail_result'))
    /\ last_finished' = Head(events)
    /\ events' = Tail(events)
    /\ UNCHANGED analysis_worker
    /\ UNCHANGED <<current_file_path, spin, test_type_combo, workers, edits>>
    /\ UNCHANGED pipevars
    /\ UNCHANGED ringvars
    /\ UNCHANGED <<fields, db>>
    /\ UNCHANGED datavars

\* the user changes a spin box; trigger_current_spin redraws the chart only
SetSpin(name, value) ==
    /\ EventLoop
    /\ edits < MaxEdits
    /\ value # spin[name]
    /\ spin' = [spin EXCEPT ![name] = value]
    /\ edits' = edits + 1
    /\ UNCHANGED analysis_worker
    /\ UNCHANGED <<current_file_path, current_analysis, test_type_combo,
                   workers, events, last_finished, widgets, pass_fail_result,
                   dialog>>
    /\ UNCHANGED pipevars
    /\ UNCHANGED ringvars
    /\ UNCHANGED savevars
    /\ UNCHANGED datavars

\* on_test_type_changed
OnTestTypeChanged(test_type) ==
    /\ EventLoop
    /\ edits < MaxEdits
    /\ test_type # test_type_combo
    /\ test_type_combo' = test_type
    /\ widgets' =
           [widgets EXCEPT
               !.skid_plate =
                   Get(test_type_configs[test_type], "has_skid_plate", FALSE)]
    /\ edits' = edits + 1
    /\ UNCHANGED analysis_worker
    /\ UNCHANGED <<current_file_path, current_analysis, spin, workers, events,
                   last_finished, pass_fail_result, dialog>>
    /\ UNCHANGED pipevars
    /\ UNCHANGED ringvars
    /\ UNCHANGED savevars
    /\ UNCHANGED datavars

\* line.strip() of the texts typed into a field
Strip(text) == IF text = " " THEN "" ELSE text

\* the names of the required fields that are blank, in the order asked
MissingFields ==
    SelectSeq(<<"test_number_edit", "test_bench_edit", "tester_id_edit">>,
              LAMBDA name : Strip(fields[name]) = "")

\* the dict save_analysis builds for the database (the two dates, the device
\* labels and the test function, which no metric depends on, are left out)
SaveData(result) ==
    LET ch1 == Get(current_analysis, "ch1", EmptyDict)
        trigger == Get(current_analysis, "trigger", EmptyDict)
        metadata == Get(current_analysis, "metadata", EmptyDict)
        sample_rate == Get(metadata, "sample_rate", Rat(0, 1))
        config == test_type_configs[test_type_combo]
    IN [file_name |-> current_file_path.path,
        test_number |-> fields.test_number_edit,
        test_bench |-> fields.test_bench_edit,
        tester_id |-> fields.tester_id_edit,
        peak_to_peak_mv |-> Get(ch1, "peak_to_peak", 0),
        trigger_current_a |-> spin.trigger_current_spin,
        noise_mv |-> Get(ch1, "noise", Surd(0, 1)),
        frequency_khz |-> Rat(sample_rate.num, sample_rate.den * 1000),
        data_points |-> Get(metadata, "data_points", 0),
        sample_rate_khz |-> Rat(sample_rate.num, sample_rate.den * 1000),
        peak_to_peak_lsl |-> spin.peak_lsl_spin,
        peak_to_peak_usl |-> spin.peak_usl_spin,
        trigger_current_lsl |-> spin.trigger_lsl_spin,
        trigger_current_usl |-> spin.trigger_usl_spin,
        noise_lsl |-> spin.noise_lsl_spin,
        noise_usl |-> spin.noise_usl_spin,
        trigger_events |-> Get(trigger, "count", 0),
        pass_fail |-> result.overall]
       @@ (IF Get(config, "has_ringdown", FALSE)
           THEN [ringdown_voltage_mv |->
                     Get(Get(ch1, "ringdown", EmptyDict),
                         "ringdown_voltage", 0),
                 ringdown_lsl |-> spin.ringdown_lsl_spin,
                 ringdown_usl |-> spin.ringdown_usl_spin]
           ELSE EmptyDict)
       @@ (IF Get(config, "has_skid_plate", FALSE)
           THEN [skid_plate_diameter |-> "skid_plate_combo"]
           ELSE EmptyDict)

\* a save that stores the verdict shown when the analysis finished
SaveAnalysisCached(saved) ==
    /\ EventLoop
    /\ widgets.save_btn
    /\ Len(evaluations.calls) < MaxEvaluations
    /\ IF ~Truthy(current_analysis)
       THEN /\ dialog' = "No analysis data to save."
            /\ UNCHANGED <<db, evaluations>>
       ELSE IF MissingFields # <<>>
            THEN /\ dialog' = "Please fill in the following required fields:"
                 /\ UNCHANGED <<db, evaluations>>
            ELSE /\ UNCHANGED evaluations
                 /\ db' = Append(db, [test_type |-> test_type_combo,
                                      data |-> SaveData(pass_fail_result),
                                      inserted |-> saved])
                 /\ dialog' = IF saved
                              THEN "Analysis saved successfully!"
                              ELSE "Failed to save analysis to database."
    /\ UNCHANGED analysis_worker
    /\ UNCHANGED <<current_file_path, current_analysis, spin, test_type_combo,
                   workers, events, last_finished, widgets, pass_fail_result,
                   edits, fields>>
    /\ UNCHANGED pipevars
    /\ UNCHANGED ringvars
    /\ UNCHANGED datavars

\* a save that does not look at current_analysis before it builds the row
SaveAnalysisUnchecked(saved) ==
    /\ EventLoop
    /\ widgets.save_btn
    /\ Len(evaluations.calls) < MaxEvaluations
    /\ UNCHANGED analysis_worker
    /\ UNCHANGED <<current_file_path, current_analysis, spin, test_type_combo,
                   workers, events, last_finished, widgets, pass_fail_result,
                   edits, fields>>
    /\ UNCHANGED pipevars
    /\ UNCHANGED ringvars
    /\ IF MissingFields # <<>>
       THEN /\ dialog' = "Please fill in the following required fields:"
            /\ UNCHANGED <<db, evaluations>>
       ELSE LET result == evaluate_pass_fail(current_analysis, spin,
                                             test_type_combo)
            IN /\ evaluations' =
                      Recorded(Call("save", current_analysis, spin,
                                    test_type_combo, result))
               /\ db' = Append(db, [test_type |-> test_type_combo,
                                    data |-> SaveData(result),
                                    inserted |-> saved])
               /\ dialog' = IF saved
                            THEN "Analysis saved successfully!"
                            ELSE "Failed to save analysis to database."
    /\ UNCHANGED datavars

\* save_analysis: a click on the enabled Save button; saved tells whether
\* DatabaseManager.save_analysis connects and inserts the row
SaveAnalysis(saved) ==
    /\ EventLoop
    /\ widgets.save_btn
    /\ Len(evaluations.calls) < MaxEvaluations
    /\ UNCHANGED analysis_worker
    /\ UNCHANGED <<current_file_path, current_analysis, spin, test_type_combo,
                   workers, events, last_finished, widgets, pass_fail_result,
                   edits, fields>>
    /\ UNCHANGED pipevars
    /\ UNCHANGED ringvars
    /\ IF ~Truthy(current_analysis)
       THEN /\ dialog' = "No analysis data to save."
            /\ UNCHANGED <<db, evaluations>>
       ELSE IF MissingFields # <<>>
            THEN /\ dialog' = "Please fill in the following required fields:"
                 /\ UNCHANGED <<db, evaluations>>
            ELSE LET result == evaluate_pass_fail(current_analysis, spin,
                                                  test_type_combo)
                 IN /\ evaluations' =
                           Recorded(Call("save", current_analysis, spin,
                                         test_type_combo, result))
                    /\ db' = Append(db, [test_type |-> test_type_combo,
                                         data |-> SaveData(result),
                                         inserted |-> saved])
                    /\ dialog' = IF saved
                                 THEN "Analysis saved successfully!"
                                 ELSE "Failed to save analysis to database."
    /\ UNCHANGED datavars

Init ==
    /\ GuiInit
    /\ lines = <<>>
    /\ trigger_threshold = 0
    /\ data = <<>>
    /\ i = 0
    /\ in_trigger = FALSE
    /\ trigger_points = <<>>
    /\ analysis = None
    /\ pc = "gui"
    /\ RingIdle
    /\ SaveIdle
    /\ DataIdle

Next ==
    \/ \E file_path \in Paths : LoadFile(file_path)
    \/ AnalyzeData
    \/ \E w \in 1..MaxWorkers : WorkerRun(w)
    \/ OnAnalysisFinished
    \/ \E name \in EditedSpins :
           \E value \in SpinValues[name] : SetSpin(name, value)
    \/ \E test_type \in DOMAIN test_type_configs : OnTestTypeChanged(test_type)

Spec == Init /\ [][Next]_vars

\* the files of a session with saves
SessionPaths == {"capture", "no_header"}

\* the settings made before the first file is loaded: limits wide enough
\* for the capture on disk
SessionSettings ==
    { [SpinDefaults EXCEPT !.peak_usl_spin = 1000, !.noise_usl_spin = 500,
                           !.trigger_lsl_spin = 2] }

\* the required fields typed before the first file is loaded
SessionFields ==
    { [FieldsInit EXCEPT !.test_number_edit = "T1", !.test_bench_edit = "B1",
                         !.tester_id_edit = tester_id] :
        tester_id \in {"U1", " "} }

\* a session whose calls of evaluate_pass_fail are recorded
InitSave ==
    /\ current_file_path = None
    /\ current_analysis = None
    /\ spin \in SessionSettings
    /\ test_type_combo = "DTT"
    /\ workers = <<>>
    /\ analysis_worker = None
    /\ events = <<>>
    /\ last_finished = None
    /\ widgets = WidgetsInit
    /\ pass_fail_result = None
    /\ dialog = NoDialog
    /\ edits = 0
    /\ lines = <<>>
    /\ trigger_threshold = 0
    /\ data = <<>>
    /\ i = 0
    /\ in_trigger = FALSE
    /\ trigger_points = <<>>
    /\ analysis = None
    /\ pc = "gui"
    /\ RingIdle
    /\ fields \in SessionFields
    /\ db = <<>>
    /\ evaluations = [recording |-> TRUE, calls |-> <<>>]
    /\ DataIdle

\* the spin boxes and the test types a user changes during the session
SessionSpins == {"trigger_current_spin", "peak_usl_spin"}
SessionTypes == {"DTT", "DTR", "DC02"}

\* analyze_data clicked while no analysis is under way
AnalyzeDataWhenIdle ==
    /\ workers = <<>>
    /\ events = <<>>
    /\ AnalyzeData

NextSave ==
    \/ \E file_path \in SessionPaths : LoadFile(file_path)
    \/ AnalyzeDataWhenIdle
    \/ \E w \in 1..MaxWorkers : WorkerRun(w)
    \/ OnAnalysisFinished
    \/ \E name \in SessionSpins :
           \E value \in SpinValues[name] : SetSpin(name, value)
    \/ \E test_type \in SessionTypes : OnTestTypeChanged(test_type)
    \/ \E saved \in BOOLEAN : SaveAnalysis(saved)

SpecSave == InitSave /\ [][NextSave]_vars

\* evaluate_pass_fail called on the window's present state
EvaluatePassFail ==
    /\ pc = "evaluate"
    /\ pass_fail_result' =
           evaluate_pass_fail(current_analysis, spin, test_type_combo)
    /\ pc' = "evaluated"
    /\ UNCHANGED analysis_worker
    /\ UNCHANGED <<current_file_path, current_analysis, spin, test_type_combo,
                   workers, events, last_finished, widgets, dialog, edits>>
    /\ UNCHANGED <<lines, trigger_threshold, data, i, in_trigger,
                   trigger_points, analysis>>
    /\ UNCHANGED ringvars
    /\ evaluations' =
           Recorded(Call("direct", current_analysis, spin, test_type_combo,
                         pass_fail_result'))
    /\ UNCHANGED <<fields, db>>
    /\ UNCHANGED datavars

\* the dicts a worker can deliver for the files on disk
DeliveredAnalyses ==
    { run(file_path, trigger_current) :
        file_path \in DOMAIN DiskFiles, trigger_current \in Thresholds }

SpinSettings ==
    [trigger_current_spin : SpinValues.trigger_current_spin,
     peak_lsl_spin : SpinValues.peak_lsl_spin,
     peak_usl_spin : SpinValues.peak_usl_spin,
     trigger_lsl_spin : SpinValues.trigger_lsl_spin,
     trigger_usl_spin : SpinValues.trigger_usl_spin,
     noise_lsl_spin : SpinValues.noise_lsl_spin,
     noise_usl_spin : SpinValues.noise_usl_spin,
     ringdown_lsl_spin : SpinValues.ringdown_lsl_spin,
     ringdown_usl_spin : SpinValues.ringdown_usl_spin]

\* the evaluation on every analysis, spin setting and test type
InitEval ==
    /\ current_file_path = None
    /\ current_analysis \in DeliveredAnalyses \cup {None}
    /\ spin \in SpinSettings
    /\ test_type_combo \in DOMAIN test_type_configs
    /\ workers = <<>>
    /\ analysis_worker = None
    /\ events = <<>>
    /\ last_finished = None
    /\ widgets = WidgetsInit
    /\ pass_fail_result = None
    /\ dialog = NoDialog
    /\ edits = 0
    /\ lines = <<>>
    /\ trigger_threshold = 0
    /\ data = <<>>
    /\ i = 0
    /\ in_trigger = FALSE
    /\ trigger_points = <<>>
    /\ analysis = None
    /\ pc = "evaluate"
    /\ RingIdle
    /\ SaveIdle
    /\ DataIdle

NextEval == EvaluatePassFail

SpecEval == InitEval /\ [][NextEval]_vars


\* the scan of calculate_analysis on every sample sequence
InitTrig ==
    /\ lines = <<>>
    /\ trigger_threshold \in Thresholds
    /\ \E n \in 0..MaxSamples :
           \E t \in TimeColumns(n), c \in [1..n -> Ch2Values] :
               data = SampleSeq(n, t, c)
    /\ i = 0
    /\ in_trigger = FALSE
    /\ trigger_points = <<>>
    /\ analysis = None
    /\ pc = "calc"
    /\ GuiInit
    /\ RingIdle
    /\ SaveIdle
    /\ DataIdle

NextTrig == CalcBegin \/ ScanStep \/ CalcEnd

SpecTrig == InitTrig /\ [][NextTrig]_vars

\* the whole pipeline on every file
InitPipe ==
    /\ lines \in Files
    /\ trigger_threshold \in Thresholds
    /\ data = <<>>
    /\ i = 0
    /\ in_trigger = FALSE
    /\ trigger_points = <<>>
    /\ analysis = None
    /\ pc = "load"
    /\ GuiInit
    /\ RingIdle
    /\ SaveIdle
    /\ DataIdle

NextPipe == LoadCsvData \/ CalcBegin \/ ScanStep \/ CalcEnd

SpecPipe == InitPipe /\ [][NextPipe]_vars

\* the worker whose run() is followed step by step
Self == workers[1]

\* run(): open(file_path) and readlines(); a path without a file raises
RunOpen ==
    /\ pc = "run"
    /\ IF Self.file_path \in DOMAIN DiskFiles
       THEN /\ lines' = DiskFiles[Self.file_path]
            /\ pc' = "load"
       ELSE /\ lines' = lines
            /\ pc' = "raised"
    /\ UNCHANGED <<trigger_threshold, data, i, in_trigger, trigger_points,
                   analysis>>
    /\ UNCHANGED guivars
    /\ UNCHANGED ringvars
    /\ UNCHANGED savevars
    /\ UNCHANGED datavars

\* an except clause that swallows the exception without a signal
RunExceptSilent ==
    /\ pc = "raised"
    /\ pc' = "returned"
    /\ UNCHANGED <<lines, trigger_threshold, data, i, in_trigger,
                   trigger_points, analysis>>
    /\ UNCHANGED guivars
    /\ UNCHANGED ringvars
    /\ UNCHANGED savevars
    /\ UNCHANGED datavars

\* run(): except Exception: finished.emit({})
RunExcept ==
    /\ pc = "raised"
    /\ events' = Append(events, [sender |-> Self, analysis_data |-> EmptyDict])
    /\ pc' = "returned"
    /\ UNCHANGED <<lines, trigger_threshold, data, i, in_trigger,
                   trigger_points, analysis>>
    /\ UNCHANGED analysis_worker
    /\ UNCHANGED <<current_file_path, current_analysis, spin, test_type_combo,
                   workers, last_finished, widgets, pass_fail_result, dialog,
                   edits>>
    /\ UNCHANGED ringvars
    /\ UNCHANGED savevars
    /\ UNCHANGED datavars

\* run(): finished.emit(analysis) after calculate_analysis has returned
RunEmit ==
    /\ pc = "done"
    /\ events' = Append(events, [sender |-> Self, analysis_data |-> analysis])
    /\ pc' = "returned"
    /\ UNCHANGED <<lines, trigger_threshold, data, i, in_trigger,
                   trigger_points, analysis>>
    /\ UNCHANGED analysis_worker
    /\ UNCHANGED <<current_file_path, current_analysis, spin, test_type_combo,
                   workers, last_finished, widgets, pass_fail_result, dialog,
                   edits>>
    /\ UNCHANGED ringvars
    /\ UNCHANGED savevars
    /\ UNCHANGED datavars

\* the paths a worker is constructed with: the files on disk and no file
WorkerPaths == DOMAIN DiskFiles \cup {"missing"}

\* a worker constructed by analyze_data and started
InitRun ==
    /\ workers \in { <<[file_path |-> f, trigger_current |-> t]>> :
                        f \in WorkerPaths, t \in Thresholds }
    /\ analysis_worker = Self
    /\ trigger_threshold = Self.trigger_current
    /\ lines = <<>>
    /\ data = <<>>
    /\ i = 0
    /\ in_trigger = FALSE
    /\ trigger_points = <<>>
    /\ analysis = None
    /\ pc = "run"
    /\ current_file_path = [path |-> Self.file_path]
    /\ current_analysis = None
    /\ spin = [SpinDefaults EXCEPT
                   !.trigger_current_spin = Self.trigger_current]
    /\ test_type_combo = "DTT"
    /\ events = <<>>
    /\ last_finished = None
    /\ widgets = [WidgetsInit EXCEPT !.analyze_btn = TRUE,
                                     !.progress_bar = TRUE]
    /\ pass_fail_result = None
    /\ dialog = NoDialog
    /\ edits = 0
    /\ RingIdle
    /\ SaveIdle
    /\ DataIdle

NextRun ==
    \/ RunOpen
    \/ LoadCsvData
    \/ CalcBegin
    \/ ScanStep
    \/ CalcEnd
    \/ RunEmit
    \/ RunExcept

SpecRun == InitRun /\ [][NextRun]_vars

\* calculate_ringdown called on ringdown_values
CalculateRingdown ==
    /\ pc = "ringdown"
    /\ ringdown' = calculate_ringdown(ringdown_values)
    /\ pc' = "ringdown_done"
    /\ UNCHANGED <<lines, trigger_threshold, data, i, in_trigger,
                   trigger_points, analysis, ringdown_values>>
    /\ UNCHANGED guivars
    /\ UNCHANGED savevars
    /\ UNCHANGED datavars

\* the lengths of the channel-1 sequences: none, one, around the minimum,
\* a window cut by the end of the sequence, and a full window
RingLengths ==
    {0, 1, RingMinSamples - 1, RingMinSamples, RingMinSamples + 1, 70,
     MaxRingLen}

\* the places (Python indices) of a spike in a sequence of n values: at the
\* ends, around the start of the tail and around the last start of a full
\* window
SpikePlaces(n) ==
    {0, 1, n - RingWindow - 1, n - RingWindow, n - RingWindow + 1,
     n - RingTail - 2, n - RingTail - 1, n - RingTail, n - RingTail + 1,
     n - 2, n - 1} \cap (0..(n - 1))

\* n values equal to base but for the spikes pk at index p and qv at index q
Wave(n, base, p, pk, q, qv) ==
    [k \in 1..n |->
        IF k = p + 1 THEN pk ELSE IF k = q + 1 THEN qv ELSE base]

RingInputs ==
    UNION { { Wave(n, base, p, pk, q, qv) :
                base \in {0, 1}, p \in SpikePlaces(n), pk \in {2, -2, 1},
                q \in SpikePlaces(n), qv \in {0, -2, 1} } :
            n \in RingLengths }

InitRing ==
    /\ lines = <<>>
    /\ trigger_threshold = 0
    /\ data = <<>>
    /\ i = 0
    /\ in_trigger = FALSE
    /\ trigger_points = <<>>
    /\ analysis = None
    /\ pc = "ringdown"
    /\ GuiInit
    /\ ringdown_values \in RingInputs
    /\ ringdown = None
    /\ SaveIdle
    /\ DataIdle

NextRing == CalculateRingdown

SpecRing == InitRing /\ [][NextRing]_vars

-----------------------------------------------------------------------------
(* DatabaseManager: table names, get_all_results, get_analytics_summary *)

\* the characters of the texts that reach the database manager
Chars ==
    ("DTT" :> <<"D", "T", "T">>)
    @@ ("DTR" :> <<"D", "T", "R">>)
    @@ ("DC02" :> <<"D", "C", "0", "2">>)
    @@ ("DC03 Skid" :> <<"D", "C", "0", "3", " ", "S", "k", "i", "d">>)
    @@ ("IDOD" :> <<"I", "D", "O", "D">>)
    @@ ("All" :> <<"A", "l", "l">>)
    @@ ("Pass" :> <<"P", "a", "s", "s">>)
    @@ ("Fail" :> <<"F", "a", "i", "l">>)
    @@ ("pass" :> <<"p", "a", "s", "s">>)
    @@ ("fail" :> <<"f", "a", "i", "l">>)
    @@ ("PASS" :> <<"P", "A", "S", "S">>)
    @@ ("unknown" :> <<"u", "n", "k", "n", "o", "w", "n">>)
    @@ ("_analysis" :> <<"_", "a", "n", "a", "l", "y", "s", "i", "s">>)

Lowers ==
    <<"a", "b", "c", "d", "e", "f", "g", "h", "i", "j", "k", "l", "m",
      "n", "o", "p", "q", "r", "s", "t", "u", "v", "w", "x", "y", "z">>
Uppers ==
    <<"A", "B", "C", "D", "E", "F", "G", "H", "I", "J", "K", "L", "M",
      "N", "O", "P", "Q", "R", "S", "T", "U", "V", "W", "X", "Y", "Z">>

\* the letter of alphabet to at the place c has in alphabet from
Cased(c, from, to) ==
    IF \E k \in DOMAIN from : from[k] = c
    THEN to[CHOOSE k \in DOMAIN from : from[k] = c]
    ELSE c

\* str.lower, str.upper
Lower(text) == [k \in DOMAIN text |-> Cased(text[k], Uppers, Lowers)]
Upper(text) == [k \in DOMAIN text |-> Cased(text[k], Lowers, Uppers)]

\* str.replace(old, new) for a non-empty old: the occurrences from the left
RECURSIVE Replace(_, _, _)
Replace(text, old, new) ==
    IF Len(text) < Len(old) THEN text
    ELSE IF SubSeq(text, 1, Len(old)) = old
         THEN new \o Replace(SubSeq(text, Len(old) + 1, Len(text)), old, new)
         ELSE <<Head(text)>> \o Replace(Tail(text), old, new)

\* a table name that keeps the space of the test type
TableNameWithSpace(test_type) == Lower(Chars[test_type]) \o Chars["_analysis"]

\* save_analysis: f"{test_type.lower().replace(' ', '_')}_analysis"
TableName(test_type) ==
    Replace(Lower(Chars[test_type]), <<" ">>, <<"_">>) \o Chars["_analysis"]

\* get_all_results: the tables it reads, in this order
tables ==
    << <<"d", "t", "t">> \o Chars["_analysis"],
       <<"d", "t", "r">> \o Chars["_analysis"],
       <<"d", "c", "0", "2">> \o Chars["_analysis"],
       <<"d", "c", "0", "3", "_", "s", "k", "i", "d">> \o Chars["_analysis"],
       <<"i", "d", "o", "d">> \o Chars["_analysis"] >>

\* table.replace('_analysis', '').upper().replace('_', ' ')
TableTestType(table) ==
    Replace(Upper(Replace(table, Chars["_analysis"], <<>>)), <<"_">>, <<" ">>)

Reverse(s) == [k \in 1..Len(s) |-> s[Len(s) + 1 - k]]

\* the rows of a table, ORDER BY analysis_date DESC: the rows that
\* save_analysis inserted into it, the latest first
StoredRows(table) ==
    Reverse(SelectSeq(db, LAMBDA r : r.inserted /\ TableName(r.test_type) = table))

\* the part of get_all_results for one table: skipped when the test type
\* filter names another table, else its rows that pass the pass_fail filter,
\* each with source_table and test_type added (the tester, bench and date
\* filters are not given)
TableResults(table, f) ==
    IF /\ DOMAIN f # {}
       /\ "test_type" \in DOMAIN f
       /\ f.test_type # "All"
       /\ TableTestType(table) # Upper(Chars[f.test_type])
    THEN <<>>
    ELSE LET wanted(r) ==
                 (/\ DOMAIN f # {}
                  /\ "pass_fail" \in DOMAIN f
                  /\ f.pass_fail # "All")
                     => Chars[r.data.pass_fail] = Lower(Chars[f.pass_fail])
             rows == SelectSeq(StoredRows(table), wanted)
         IN [k \in 1..Len(rows) |->
                [source_table |-> table,
                 test_type |-> TableTestType(table)] @@ rows[k].data]

RECURSIVE ResultsFrom(_, _)
ResultsFrom(k, f) ==
    IF k > Len(tables) THEN <<>>
    ELSE TableResults(tables[k], f) \o ResultsFrom(k + 1, f)

\* get_all_results(filters); connected tells whether connect() succeeded
get_all_results(connected, f) ==
    IF ~connected THEN <<>> ELSE ResultsFrom(1, f)

\* a breakdown loop body that counts as fail only what says fail
TallyStepFailOnly(acc, result, key) ==
    LET k == result[key]
        entry == IF k \in DOMAIN acc THEN acc[k]
                 ELSE [total |-> 0, pass |-> 0, fail |-> 0]
    IN (k :> [total |-> entry.total + 1,
              pass |-> entry.pass + (IF result.pass_fail = "pass" THEN 1 ELSE 0),
              fail |-> entry.fail + (IF result.pass_fail = "fail" THEN 1 ELSE 0)])
       @@ acc

\* the body of a breakdown loop of get_analytics_summary
TallyStep(acc, result, key) ==
    LET k == result[key]
        entry == IF k \in DOMAIN acc THEN acc[k]
                 ELSE [total |-> 0, pass |-> 0, fail |-> 0]
    IN (k :> [total |-> entry.total + 1,
              pass |-> entry.pass + (IF result.pass_fail = "pass" THEN 1 ELSE 0),
              fail |-> entry.fail + (IF result.pass_fail = "pass" THEN 0 ELSE 1)])
       @@ acc

\* for result in results: the breakdown by key after the first n results
RECURSIVE Tally(_, _, _)
Tally(rs, key, n) ==
    IF n = 0 THEN EmptyDict ELSE TallyStep(Tally(rs, key, n - 1), rs[n], key)

\* get_analytics_summary on the rows get_all_results returned (the recent
\* trend and the parameter statistics are left out)
get_analytics_summary(rs) ==
    IF rs = <<>> THEN EmptyDict
    ELSE LET total_tests == Len(rs)
             pass_count == Len(SelectSeq(rs, LAMBDA r : r.pass_fail = "pass"))
         IN [summary |-> [total_tests |-> total_tests,
                          pass_count |-> pass_count,
                          fail_count |-> total_tests - pass_count,
                          pass_rate |-> Rat(pass_count * 100, total_tests)],
             test_types |-> Tally(rs, "test_type", Len(rs)),
             testers |-> Tally(rs, "tester_id", Len(rs)),
             test_benches |-> Tally(rs, "test_bench", Len(rs))]

\* one call of get_all_results
GetAllResults(connected, f) ==
    /\ pc = "db"
    /\ conn' = connected
    /\ filters' = f
    /\ all_results' = get_all_results(connected, f)
    /\ pc' = "results"
    /\ UNCHANGED summary
    /\ UNCHANGED <<lines, trigger_threshold, data, i, in_trigger,
                   trigger_points, analysis>>
    /\ UNCHANGED guivars
    /\ UNCHANGED ringvars
    /\ UNCHANGED savevars

\* one call of get_analytics_summary, with its call of get_all_results
GetAnalyticsSummary(connected, f) ==
    /\ pc = "db"
    /\ conn' = connected
    /\ filters' = f
    /\ all_results' = get_all_results(connected, f)
    /\ summary' = get_analytics_summary(all_results')
    /\ pc' = "summary"
    /\ UNCHANGED <<lines, trigger_threshold, data, i, in_trigger,
                   trigger_points, analysis>>
    /\ UNCHANGED guivars
    /\ UNCHANGED ringvars
    /\ UNCHANGED savevars

\* a call of DatabaseManager.save_analysis as save_analysis of the window
\* makes it, with the columns the summary reads
SavedRow(test_type, tester_id, test_bench, pass_fail, inserted) ==
    [test_type |-> test_type,
     data |-> [tester_id |-> tester_id, test_bench |-> test_bench,
               pass_fail |-> pass_fail],
     inserted |-> inserted]

\* rows of every configured test type, of two testers and two benches, with
\* verdicts other than pass and fail, and one that the database refused
SavedRows ==
    { SavedRow("DTT", "U1", "B1", "pass", TRUE),
      SavedRow("DTT", "U2", "B2", "fail", TRUE),
      SavedRow("DTR", "U1", "B2", "PASS", TRUE),
      SavedRow("DC02", "U2", "B1", "unknown", TRUE),
      SavedRow("DC03 Skid", "U1", "B1", "pass", TRUE),
      SavedRow("IDOD", "U2", "B2", "fail", TRUE),
      SavedRow("IDOD", "U1", "B1", "pass", FALSE) }

\* the filters of the analytics tab: none, a test type, a verdict, or both
FilterSets ==
    {EmptyDict}
    \cup { [test_type |-> t] : t \in DOMAIN test_type_configs \cup {"All"} }
    \cup { [pass_fail |-> v] : v \in {"Pass", "Fail"} }
    \cup { [test_type |-> t, pass_fail |-> v] :
             t \in {"DTT", "DC03 Skid"}, v \in {"Pass", "Fail"} }

InitData ==
    /\ lines = <<>>
    /\ trigger_threshold = 0
    /\ data = <<>>
    /\ i = 0
    /\ in_trigger = FALSE
    /\ trigger_points = <<>>
    /\ analysis = None
    /\ pc = "db"
    /\ GuiInit
    /\ RingIdle
    /\ fields = FieldsInit
    /\ \E n \in 0..MaxRows : db \in [1..n -> SavedRows]
    /\ evaluations = [recording |-> FALSE, calls |-> <<>>]
    /\ DataIdle

\* the calls made: with a connection and any of the filters, or without a
\* connection, when the filters are not looked at
Queries ==
    { <<TRUE, f>> : f \in FilterSets } \cup { <<FALSE, EmptyDict>> }

NextData ==
    \/ \E q \in Queries : GetAllResults(q[1], q[2])
    \/ \E q \in Queries : GetAnalyticsSummary(q[1], q[2])

SpecData == InitData /\ [][NextData]_vars

-----------------------------------------------------------------------------
(* Properties of the trigger scan (SpecTrig) *)

Scanned == pc \in {"scan", "done"}

\* the samples the scan has looked at as "current" so far: 1 .. ScanEnd - 1
ScanEnd == IF pc = "done" THEN Len(data) ELSE i

Magnitude(k) == Abs(PyIndex(data, k).ch2)
Rising(k) == Magnitude(k - 1) <= trigger_threshold
             /\ Magnitude(k) > trigger_threshold

EventIndices == { trigger_points[n].index : n \in DOMAIN trigger_points }

StrictlyIncreasing(s) == \A n \in 1..(Len(s) - 1) : s[n] < s[n + 1]

EventTimes == [n \in DOMAIN trigger_points |-> trigger_points[n].time]

Delivered == pc = "done" /\ analysis # EmptyDict

\* C1: the events emitted are exactly the rising transitions: an event sits
\* at index k >= 1 iff abs(ch2[k-1]) <= threshold < abs(ch2[k]), once each,
\* at every iteration boundary and in the returned dict.
C1_EventsAreRisingTransitions ==
    /\ Scanned =>
         /\ EventIndices = { k \in 1..(ScanEnd - 1) : Rising(k) }
         /\ Cardinality(EventIndices) = Len(trigger_points)
    /\ Delivered =>
         /\ analysis.trigger.points = trigger_points
         /\ analysis.trigger.count = Len(trigger_points)

\* a finished scan of a capture that starts above the threshold, stays
\* there, falls and rises again: one sample above the threshold is no event
C1_Witness ==
    /\ Delivered
    /\ Len(data) >= 4
    /\ Magnitude(0) > trigger_threshold
    /\ Magnitude(1) > trigger_threshold
    /\ analysis.trigger.count = 1

\* C2: hysteresis: between two consecutive events there is a sample whose
\* magnitude is at most the threshold.
C2_Hysteresis ==
    Scanned =>
        \A n \in 1..(Len(trigger_points) - 1) :
            \E k \in (trigger_points[n].index + 1)
                       ..(trigger_points[n + 1].index - 1) :
                Magnitude(k) <= trigger_threshold

\* two events, the first followed by a second sample above the threshold
C2_Witness ==
    /\ Delivered
    /\ Len(trigger_points) = 2
    /\ Magnitude(trigger_points[1].index + 1) > trigger_threshold

\* C3: no event has sample index 0, and a one-sample capture has no events.
C3_NoEventAtIndexZero ==
    /\ Scanned => \A n \in DOMAIN trigger_points : trigger_points[n].index >= 1
    /\ (Delivered /\ Len(data) = 1) => analysis.trigger.count = 0

\* a capture whose first sample is above the threshold while its last one is
\* not, and a one-sample capture above the threshold
C3_Witness ==
    /\ Delivered
    /\ Magnitude(0) > trigger_threshold
    /\ Magnitude(-1) <= trigger_threshold \/ Len(data) = 1

\* C4 as stated: the event times are strictly increasing for every capture.
C4_EventTimesIncreaseAlways == Scanned => StrictlyIncreasing(EventTimes)

\* C4 amended: the event times are strictly increasing whenever the time
\* column of the capture is strictly increasing.
C4_EventTimesIncreaseWithTimeColumn ==
    (Scanned /\ StrictlyIncreasing(Column(data, "time")))
        => StrictlyIncreasing(EventTimes)

C4_Witness ==
    /\ Delivered
    /\ StrictlyIncreasing(Column(data, "time"))
    /\ Len(trigger_points) = 2

\* C26: the events have strictly increasing sample indices within 1..n-1,
\* no two of them at adjacent indices; each event carries the time and the
\* signed channel-2 value of the sample at its index; and the count that is
\* reported is the number of events and is at most floor(n / 2).
C26_EventsWellFormed ==
    /\ Scanned =>
         /\ \A n \in DOMAIN trigger_points :
                /\ trigger_points[n].index \in 1..(Len(data) - 1)
                /\ trigger_points[n].time =
                       PyIndex(data, trigger_points[n].index).time
                /\ trigger_points[n].current =
                       PyIndex(data, trigger_points[n].index).ch2
         /\ \A n \in 1..(Len(trigger_points) - 1) :
                trigger_points[n].index + 1 < trigger_points[n + 1].index
    /\ Delivered =>
         /\ analysis.trigger.count = Len(analysis.trigger.points)
         /\ analysis.trigger.points = trigger_points
         /\ 2 * analysis.trigger.count <= Len(data)

\* four samples with events at indices 1 and 3, the first one negative: the
\* largest count four samples can give
C26_Witness ==
    /\ Delivered
    /\ Len(data) = 4
    /\ analysis.trigger.count = 2
    /\ trigger_points[1].index = 1 /\ trigger_points[2].index = 3
    /\ trigger_points[1].current < 0

\* the index of the event emitted last
LastEvent == trigger_points[Len(trigger_points)].index

\* C30: at every boundary between iterations of the scan, when in_trigger is
\* true the sample scanned last is above the threshold and an event has been
\* emitted for the excursion it belongs to: every sample from the last event
\* on is above the threshold. (Not conversely: the witness starts above the
\* threshold and is scanned with in_trigger false until it has fallen and
\* risen.)
C30_InTriggerMeansAboveWithEvent ==
    (Scanned /\ in_trigger) =>
        /\ ScanEnd >= 2
        /\ Magnitude(ScanEnd - 1) > trigger_threshold
        /\ trigger_points # <<>>
        /\ \A k \in LastEvent..(ScanEnd - 1) :
               Magnitude(k) > trigger_threshold

\* a capture whose first two samples are above the threshold without an
\* event, which then falls, rises at index 3 and stays above at index 4
C30_Witness ==
    /\ Scanned
    /\ in_trigger
    /\ Len(data) = 5
    /\ ScanEnd = 5
    /\ Magnitude(0) > trigger_threshold
    /\ Magnitude(1) > trigger_threshold
    /\ Len(trigger_points) = 1
    /\ LastEvent = 3

TimeValues == { data[k].time : k \in DOMAIN data }

\* the span of the time column: largest minus smallest time
IsDuration(duration) ==
    \E lo, hi \in TimeValues :
        /\ \A t \in TimeValues : lo <= t /\ t <= hi
        /\ duration = hi - lo

\* C16: sample_rate is data_points / (duration / 1000), that is
\* data_points * 1000 / duration, when the duration is positive and 0
\* otherwise; one sample or equal times give sample_rate 0 and duration 0;
\* no quotient has divisor 0.
C16_SampleRateGuarded ==
    Delivered =>
        /\ IsDuration(analysis.metadata.duration)
        /\ analysis.metadata.sample_rate.den # 0
        /\ analysis.metadata.sample_rate =
               IF analysis.metadata.duration > 0
               THEN [num |-> analysis.metadata.data_points * 1000,
                     den |-> analysis.metadata.duration]
               ELSE [num |-> 0, den |-> 1]
        /\ (Len(data) = 1 \/ Cardinality(TimeValues) = 1) =>
               /\ analysis.metadata.duration = 0
               /\ analysis.metadata.sample_rate = [num |-> 0, den |-> 1]

\* several samples with one and the same time
C16_Witness ==
    /\ Delivered
    /\ Len(data) >= 2
    /\ Cardinality(TimeValues) = 1
    /\ analysis.metadata.sample_rate = [num |-> 0, den |-> 1]

-----------------------------------------------------------------------------
(* Properties of the parser (SpecPipe) *)

Parsed == pc \in {"calc", "scan", "done"}

\* a row the claim calls valid: not blank, at least three fields, the first
\* three of them numbers
ValidRow(line) ==
    /\ line # <<"">>
    /\ Len(line) >= 3
    /\ \A f \in 1..3 : IsFloat(line[f])

RowsAfterHeader == SubSeq(lines, FindHeader(lines, 0) + 2, Len(lines))

SampleOfRow(line) ==
    [time |-> 1000 * float(line[1]), ch1 |-> float(line[2]),
     ch2 |-> float(line[3])]

ValidRows == SelectSeq(RowsAfterHeader, ValidRow)

\* C8: the parsed samples are the valid rows after the header, in file
\* order, every other row being skipped; data_points is their number.
C8_ParsedIsValidRowsInOrder ==
    /\ Parsed => data = [n \in 1..Len(ValidRows) |-> SampleOfRow(ValidRows[n])]
    /\ Delivered => analysis.metadata.data_points = Len(ValidRows)

\* valid rows on both sides of a skipped one, one of them with a 4th field
C8_Witness ==
    /\ Delivered
    /\ Len(RowsAfterHeader) = 3
    /\ ~ValidRow(RowsAfterHeader[2])
    /\ Len(RowsAfterHeader[3]) = 4
    /\ Len(data) = 2

\* the lines whose fields are exactly TIME, CH1, CH2
ExactHeaders == { k \in DOMAIN lines : lines[k] = <<"TIME", "CH1", "CH2">> }

FirstExactHeader == CHOOSE k \in ExactHeaders : \A j \in ExactHeaders : k <= j

ValidRowsAfterExactHeader ==
    SelectSeq(SubSeq(lines, FirstExactHeader + 1, Len(lines)), ValidRow)

\* C20 as stated: the header is the first line whose fields are exactly
\* TIME, CH1, CH2: without such a line the parser fails, and with one the
\* samples are the valid rows after it, a line that holds the marker text
\* inside longer fields or before further columns being no header.
C20_HeaderMatchedExactly ==
    /\ pc = "raised" => ExactHeaders = {}
    /\ Parsed =>
           /\ ExactHeaders # {}
           /\ data = [n \in 1..Len(ValidRowsAfterExactHeader) |->
                         SampleOfRow(ValidRowsAfterExactHeader[n])]

\* the values of one channel of the parsed samples
ChannelValues(key) == { data[k][key] : k \in DOMAIN data }

\* ptp is hi - lo times scale for the largest hi and smallest lo of the channel
IsPeakToPeak(ptp, key, scale) ==
    \E lo, hi \in ChannelValues(key) :
        /\ \A v \in ChannelValues(key) : lo <= v /\ v <= hi
        /\ ptp = (hi - lo) * scale

-----------------------------------------------------------------------------
(* Properties of one run of the worker (SpecRun) *)

Returned == pc = "returned"

\* a result with every part and every field of every part
FullyFormed(d) ==
    /\ DOMAIN d = {"raw_data", "ch1", "ch2", "trigger", "metadata"}
    /\ d.raw_data # <<>>
    /\ DOMAIN d.ch1 =
           {"min", "max", "peak_to_peak", "rms", "noise", "ringdown"}
    /\ DOMAIN d.ch1.ringdown = {"ringdown_voltage", "decay_constant"}
    /\ DOMAIN d.ch2 = {"min", "max", "peak_to_peak", "rms"}
    /\ DOMAIN d.trigger = {"threshold", "points", "count"}
    /\ DOMAIN d.metadata =
           {"data_points", "sample_rate", "duration", "time_start",
            "time_end"}

\* C17: a run emits finished exactly once, at its end and not before, and
\* the dict it carries is either a fully-formed result or the empty dict
\* that reports failure, whichever stage the run stopped at.
C17_OneOutcomePerRun ==
    /\ Len(events) = IF Returned THEN 1 ELSE 0
    /\ \A k \in DOMAIN events :
           \/ events[k].analysis_data = <<>>
           \/ FullyFormed(events[k].analysis_data)
    /\ \A k \in DOMAIN events :
           events[k].analysis_data = run(Self.file_path, Self.trigger_current)

\* a run that stopped at the header search of a file that exists
C17_Witness ==
    /\ Returned
    /\ lines # <<>>
    /\ data = <<>>
    /\ analysis = None
    /\ events[1].analysis_data = <<>>

-----------------------------------------------------------------------------
(* Properties of the ringdown estimator (SpecRing) *)

RingDone == pc = "ringdown_done"

RingLen == Len(ringdown_values)

RingAbs(k) == Abs(PyIndex(ringdown_values, k))

ZeroSentinel ==
    [ringdown_voltage |-> 0, decay_constant |-> [log_of |-> Rat(1, 1), over |-> 1]]

\* C12: for fewer than 50 values the estimator returns the zero sentinel,
\* whatever the values are: the pending call has that value (a dict, not a
\* raised exception), and the finished call has stored it.
C12_ShortSequenceGivesSentinel ==
    /\ (RingDone /\ RingLen < 50) => ringdown = ZeroSentinel
    /\ (pc = "ringdown" /\ RingLen < 50) =>
           calculate_ringdown(ringdown_values) = ZeroSentinel

\* 49 values with a spike that has room for a tail behind it
C12_Witness ==
    /\ RingDone
    /\ RingLen = 49
    /\ RingAbs(10) # RingAbs(0)
    /\ ringdown = ZeroSentinel
\* the index of the first occurrence of the largest absolute value
IsPeakIndex(p) ==
    /\ p \in 0..(RingLen - 1)
    /\ \A k \in 0..(p - 1) : RingAbs(k) < RingAbs(p)
    /\ \A k \in 0..(RingLen - 1) : RingAbs(k) <= RingAbs(p)

PeakIndex == CHOOSE p \in 0..(RingLen - 1) : IsPeakIndex(p)

\* the decay window: up to 100 values from the peak, cut at the end
WindowEnd == IF PeakIndex + 100 < RingLen THEN PeakIndex + 100 ELSE RingLen
InitialAmplitude == RingAbs(PeakIndex)
FinalAmplitude == RingAbs(WindowEnd - 1)

\* C13 as stated: for at least 50 values the result is the zero sentinel
\* when the peak index is at least n - 20 and is not the zero sentinel when
\* the peak index is below n - 20.
C13_SentinelIffPeakInTail ==
    (RingDone /\ RingLen >= 50) =>
        (ringdown = ZeroSentinel <=> PeakIndex >= RingLen - 20)

\* C13 amended: for at least 50 values the result is the zero sentinel when
\* the peak index is at least n - 20; when it is below n - 20 the result is
\* the one computed from the decay window, with the voltage
\* (initial - final amplitude) * 1000, and it differs from the zero sentinel
\* exactly when the two amplitudes differ.
C13_SentinelInTailElseWindow ==
    (RingDone /\ RingLen >= 50) =>
        IF PeakIndex >= RingLen - 20
        THEN ringdown = ZeroSentinel
        ELSE /\ ringdown.ringdown_voltage =
                    (InitialAmplitude - FinalAmplitude) * 1000
             /\ ringdown # ZeroSentinel <=> InitialAmplitude # FinalAmplitude

\* 50 values whose largest magnitude occurs twice, first at index 29, the
\* last place with room for the tail, and again inside the tail
C13_Witness ==
    /\ RingDone
    /\ RingLen = 50
    /\ PeakIndex = 29
    /\ \E k \in 30..49 : RingAbs(k) = RingAbs(29)
    /\ ringdown # ZeroSentinel

DecayConstant == ringdown.decay_constant

\* log(a / b) / n > 0 for a, b, n > 0
LogRatioPositive(x) == x.log_of.num > x.log_of.den
\* the log ratio is a number: the quotient exists and is positive
LogRatioDefined(x) == x.log_of.den > 0 /\ x.log_of.num > 0 /\ x.over > 0

HasWindow == RingLen >= 50 /\ PeakIndex < RingLen - 20

\* C14: the decay constant is positive if and only if the amplitudes of the
\* first and last value of the decay window satisfy initial > final > 0; in
\* every other case, the sentinel cases included, it is exactly 0; no
\* division by zero and no logarithm of a non-positive number is taken.
C14_DecayPositiveIffAmplitudesFall ==
    RingDone =>
        /\ LogRatioDefined(DecayConstant)
        /\ LogRatioPositive(DecayConstant) <=>
               /\ HasWindow
               /\ InitialAmplitude > FinalAmplitude
               /\ FinalAmplitude > 0
        /\ ~LogRatioPositive(DecayConstant) =>
               DecayConstant = [log_of |-> Rat(1, 1), over |-> 1]

\* a window cut by the end of the sequence whose amplitude falls from 2 to 1
C14_Witness ==
    /\ RingDone
    /\ HasWindow
    /\ WindowEnd = RingLen
    /\ InitialAmplitude = 2 /\ FinalAmplitude = 1
    /\ DecayConstant = [log_of |-> Rat(2, 1), over |-> RingLen - PeakIndex]

Window == DecaySegment(ringdown_values, IndexOfMax(AbsValues(ringdown_values)))

\* C21: when the estimator reaches the decay window (at least 50 values, the
\* peak before the last 20), the window is the run of values that starts at
\* the peak index and has min(100, n - peak index) values, and the voltage
\* is (|first value of the window| - |last value of the window|) * 1000; a
\* positive decay constant is divided by the length of that window.
C21_WindowAndVoltage ==
    (RingDone /\ HasWindow) =>
        LET window == Window
            peak == PeakIndex
        IN /\ Len(window) = Min2(100, RingLen - peak)
           /\ \A k \in 1..Len(window) :
                  window[k] = PyIndex(ringdown_values, peak + k - 1)
           /\ ringdown.ringdown_voltage =
                  (Abs(window[1]) - Abs(window[Len(window)])) * 1000
           /\ LogRatioPositive(DecayConstant) =>
                  DecayConstant.over = Min2(100, RingLen - peak)

\* 121 values with the peak at index 21, the last place whose window has
\* all 100 values, and a lower second spike as the last value of the window
C21_Witness ==
    /\ RingDone
    /\ RingLen = 121
    /\ PeakIndex = 21
    /\ Len(Window) = 100
    /\ RingAbs(120) = 1 /\ RingAbs(119) = 0
    /\ ringdown.ringdown_voltage = 1000

\* C28: whenever the estimator returns a result other than the sentinel, it
\* has used a decay window, and every decay window it uses has between 21
\* and 100 values: the divisor of the decay constant is not 0 and the first
\* and the last value of the window are at different places.
C28_WindowLengthBounds ==
    RingDone =>
        /\ ringdown # ZeroSentinel =>
               /\ HasWindow
               /\ Len(Window) \in 21..100
        /\ HasWindow =>
               /\ Len(Window) \in 21..100
               /\ PeakIndex < WindowEnd - 1
               /\ DecayConstant.over > 0
               /\ LogRatioPositive(DecayConstant) =>
                      DecayConstant.over = Len(Window)

\* 50 values with the peak at index 29: the shortest window, 21 values
C28_Witness ==
    /\ RingDone
    /\ ringdown # ZeroSentinel
    /\ RingLen = 50
    /\ Len(Window) = 21
    /\ LogRatioPositive(DecayConstant)

-----------------------------------------------------------------------------
(* Properties of the pass/fail evaluation (SpecEval) *)

Evaluated == pc = "evaluated" /\ Truthy(current_analysis)

Details == pass_fail_result.details

\* lsl <= sqrt(rad)/den <= usl for limits that are not negative
NoiseWithin(noise, lsl, usl) ==
    /\ lsl * lsl * noise.den * noise.den <= noise.rad
    /\ noise.rad <= usl * usl * noise.den * noise.den

RingdownVoltage == current_analysis.ch1.ringdown.ringdown_voltage

\* C9: peak_to_peak, trigger_current and noise pass exactly when
\* lsl <= measured value <= usl, both bounds included.
C9_CriteriaInclusiveLimits ==
    Evaluated =>
        /\ Details.peak_to_peak <=>
              /\ spin.peak_lsl_spin <= current_analysis.ch1.peak_to_peak
              /\ current_analysis.ch1.peak_to_peak <= spin.peak_usl_spin
        /\ Details.trigger_current <=>
              /\ spin.trigger_lsl_spin <= spin.trigger_current_spin
              /\ spin.trigger_current_spin <= spin.trigger_usl_spin
        /\ Details.noise <=>
              NoiseWithin(current_analysis.ch1.noise, spin.noise_lsl_spin,
                          spin.noise_usl_spin)

\* every measured value sits on a limit (peak on both) and passes
C9_Witness ==
    /\ Evaluated
    /\ current_analysis.ch1.peak_to_peak = spin.peak_lsl_spin
    /\ current_analysis.ch1.peak_to_peak = spin.peak_usl_spin
    /\ spin.trigger_current_spin = spin.trigger_usl_spin
    /\ current_analysis.ch1.noise.rad =
           spin.noise_lsl_spin * spin.noise_lsl_spin
               * current_analysis.ch1.noise.den * current_analysis.ch1.noise.den
    /\ Details.peak_to_peak /\ Details.trigger_current /\ Details.noise

\* C10: for a test type without has_ringdown the ringdown criterion is true
\* whatever the ringdown voltage and the ringdown limits are; for DC02, the
\* one type that declares has_ringdown, it is the comparison with the limits.
C10_RingdownForcedUnlessRequired ==
    Evaluated =>
        IF test_type_combo = "DC02"
        THEN Details.ringdown <=>
                 /\ spin.ringdown_lsl_spin <= RingdownVoltage
                 /\ RingdownVoltage <= spin.ringdown_usl_spin
        ELSE Details.ringdown

\* a type without ringdown passes a ringdown voltage above its upper limit
C10_Witness ==
    /\ Evaluated
    /\ test_type_combo # "DC02"
    /\ RingdownVoltage > spin.ringdown_usl_spin
    /\ Details.ringdown

Criteria == {"peak_to_peak", "trigger_current", "noise", "ringdown"}

\* C11: whenever an analysis is present, the evaluation has the four
\* per-criterion results and the overall verdict is "pass" if and only if
\* all four are true, and "fail" otherwise.
C11_OverallIsConjunction ==
    Evaluated =>
        /\ DOMAIN Details = Criteria
        /\ pass_fail_result.overall \in {"pass", "fail"}
        /\ pass_fail_result.overall = "pass" <=> \A c \in Criteria : Details[c]

\* the ringdown criterion alone is false and the verdict is "fail"
C11_Witness ==
    /\ Evaluated
    /\ Details.peak_to_peak /\ Details.trigger_current /\ Details.noise
    /\ ~Details.ringdown
    /\ pass_fail_result.overall = "fail"

-----------------------------------------------------------------------------
(* Properties of a session with saves (SpecSave) *)

Calls == evaluations.calls

\* the values the claim lets the verdict depend on
InputsOf(call) ==
    <<call.analysis, call.limits, call.trigger_current,
      call.requires_ringdown>>

FreshVerdict(ca, sp, test_type) ==
    IF /\ sp.peak_lsl_spin <= ca.ch1.peak_to_peak
       /\ ca.ch1.peak_to_peak <= sp.peak_usl_spin
       /\ sp.trigger_lsl_spin <= sp.trigger_current_spin
       /\ sp.trigger_current_spin <= sp.trigger_usl_spin
       /\ NoiseWithin(ca.ch1.noise, sp.noise_lsl_spin, sp.noise_usl_spin)
       /\ test_type = "DC02" =>
              /\ sp.ringdown_lsl_spin <= ca.ch1.ringdown.ringdown_voltage
              /\ ca.ch1.ringdown.ringdown_voltage <= sp.ringdown_usl_spin
    THEN "pass" ELSE "fail"

\* C19: every step that hands a row to the database stores in it the
\* verdict of the analysis under the limits, trigger-current setting and
\* test type the window has at that step, whatever verdict was shown when
\* the analysis finished.
C19_SavedVerdictIsFresh ==
    [][Len(db') > Len(db) =>
           db'[Len(db')].data.pass_fail =
               FreshVerdict(current_analysis, spin, test_type_combo)]_db

\* a row saved as "pass" while the label still shows the "fail" computed
\* when the analysis finished, the trigger-current setting having changed
C19_Witness ==
    /\ db # <<>>
    /\ db[1].inserted
    /\ db[1].data.pass_fail = "pass"
    /\ pass_fail_result # None
    /\ pass_fail_result.overall = "fail"
    /\ widgets.pass_fail_label = "Status: FAIL"

\* the texts of the three required fields, stripped
RequiredTexts ==
    { Strip(fields[name]) :
        name \in {"test_number_edit", "test_bench_edit", "tester_id_edit"} }

\* C24: a row is handed to the database only by a save made while
\* current_analysis is a non-empty result and Test Number, Test Bench and
\* Tester ID are all non-blank, and no save, accepted or rejected, changes
\* current_analysis; so after a successful analysis followed by a failed one
\* a click on the still enabled Save button writes nothing.
C24_SaveOnlyCompleteAnalyses ==
    [][/\ Len(db') > Len(db) =>
              /\ current_analysis # None
              /\ DOMAIN current_analysis # {}
              /\ "" \notin RequiredTexts
       /\ (\E saved \in BOOLEAN : SaveAnalysis(saved)) =>
              current_analysis' = current_analysis]_<<db, current_analysis>>

\* a successful analysis has enabled Save, a failed one has emptied
\* current_analysis, and the click on Save was turned away
C24_Witness ==
    /\ widgets.save_btn
    /\ current_analysis = EmptyDict
    /\ "" \notin RequiredTexts
    /\ db = <<>>
    /\ dialog = "No analysis data to save."

\* the metrics of row come from the dict a
MetricsFrom(row, a) ==
    /\ Truthy(a)
    /\ row.peak_to_peak_mv = a.ch1.peak_to_peak
    /\ row.noise_mv = a.ch1.noise
    /\ row.trigger_events = a.trigger.count

\* C23: every row handed to the database is coherent with one analysis run:
\* its peak_to_peak_mv, noise_mv and trigger_events are those of the
\* analysis of the file file_name with the trigger threshold
\* trigger_current_a.
C23_SavedRowIsOneRun ==
    \A k \in DOMAIN db :
        MetricsFrom(db[k].data,
                    run(db[k].data.file_name, db[k].data.trigger_current_a))

-----------------------------------------------------------------------------
(* Properties of the database queries (SpecData) *)

Summarized == pc = "summary" /\ summary # EmptyDict

\* the sum of the totals of the entries keys of a breakdown
RECURSIVE SumOfTotals(_, _)
SumOfTotals(breakdown, keys) ==
    IF keys = {} THEN 0
    ELSE LET k == CHOOSE k \in keys : TRUE
         IN breakdown[k].total + SumOfTotals(breakdown, keys \ {k})

\* the returned rows with this value in this column, all and passed
RowsWith(key, value) ==
    { n \in DOMAIN all_results : all_results[n][key] = value }
PassedWith(key, value) ==
    { n \in RowsWith(key, value) : all_results[n].pass_fail = "pass" }

\* a breakdown has one entry per value of its column, whose counts are those
\* of the returned rows with that value
BreakdownConsistent(breakdown, key) ==
    /\ DOMAIN breakdown = { all_results[n][key] : n \in DOMAIN all_results }
    /\ \A k \in DOMAIN breakdown :
           /\ breakdown[k].pass + breakdown[k].fail = breakdown[k].total
           /\ breakdown[k].total = Cardinality(RowsWith(key, k))
           /\ breakdown[k].pass = Cardinality(PassedWith(key, k))
    /\ SumOfTotals(breakdown, DOMAIN breakdown) = summary.summary.total_tests

\* C27: for a non-empty result set the summary's counts are consistent:
\* pass_count + fail_count = total_tests, the rows whose pass_fail is not
\* exactly pass are the fails, pass_rate is within [0, 100], and in each of
\* the breakdowns by test type, tester and bench every entry has
\* pass + fail = total and the totals add up to total_tests.
C27_SummaryCountsConsistent ==
    Summarized =>
        LET s == summary.summary IN
        /\ s.total_tests = Len(all_results)
        /\ s.pass_count + s.fail_count = s.total_tests
        /\ s.fail_count =
               Cardinality({ n \in DOMAIN all_results :
                               all_results[n].pass_fail # "pass" })
        /\ s.pass_rate.den > 0
        /\ 0 <= s.pass_rate.num
        /\ s.pass_rate.num <= 100 * s.pass_rate.den
        /\ BreakdownConsistent(summary.test_types, "test_type")
        /\ BreakdownConsistent(summary.testers, "tester_id")
        /\ BreakdownConsistent(summary.test_benches, "test_bench")

\* three rows of three test types, one pass, one PASS and one unknown: one
\* pass and two fails
C27_Witness ==
    /\ Summarized
    /\ summary.summary.total_tests = 3
    /\ summary.summary.pass_count = 1
    /\ \E n \in DOMAIN all_results : all_results[n].pass_fail = "PASS"
    /\ \E n \in DOMAIN all_results : all_results[n].pass_fail = "unknown"
    /\ Cardinality(DOMAIN summary.test_types) = 3
    /\ Cardinality(DOMAIN summary.testers) = 2

\* the rows save_analysis inserted for a test type
InsertedFor(test_type) ==
    { k \in DOMAIN db : db[k].inserted /\ db[k].test_type = test_type }

\* the two name mappings agree on the configured test types
NamesRoundTrip ==
    \A t \in DOMAIN test_type_configs :
        /\ \E k \in DOMAIN tables : tables[k] = TableName(t)
        /\ \A k \in DOMAIN tables :
               TableTestType(tables[k]) = Upper(Chars[t])
                   <=> tables[k] = TableName(t)

\* C29: for every configured test type the table save_analysis writes to is
\* one of the tables get_all_results reads, and it is the only one of them
\* whose name, turned back into a test type, equals the upper-cased type;
\* so a query filtered by a test type alone returns exactly the rows that
\* were inserted for that type, all from that one table.
C29_TableNamesRoundTrip ==
    /\ NamesRoundTrip
    /\ (/\ pc = "results"
        /\ conn
        /\ DOMAIN filters = {"test_type"}
        /\ filters.test_type # "All") =>
           /\ Len(all_results) = Cardinality(InsertedFor(filters.test_type))
           /\ \A n \in DOMAIN all_results :
                  /\ all_results[n].source_table = TableName(filters.test_type)
                  /\ all_results[n].test_type = Upper(Chars[filters.test_type])

\* three rows of three test types are stored and the query for DC03 Skid,
\* the type whose name has a space, returns the one row of its table
C29_Witness ==
    /\ pc = "results"
    /\ conn
    /\ filters = [test_type |-> "DC03 Skid"]
    /\ Len(db) = 3
    /\ Cardinality({ db[k].test_type : k \in DOMAIN db }) = 3
    /\ Len(all_results) = 1
    /\ all_results[1].source_table =
           <<"d", "c", "0", "3", "_", "s", "k", "i", "d",
             "_", "a", "n", "a", "l", "y", "s", "i", "s">>

-----------------------------------------------------------------------------
(* Properties of the worker and its receiver (Spec) *)

\* no line of the file holds the header marker
HeaderAbsent(file_path) ==
    \A k \in DOMAIN DiskFiles[file_path] :
        ~ContainsHeader(DiskFiles[file_path][k])

\* the file has a header line and no valid row after the first one
HeaderWithoutRows(file_path) ==
    \E k \in DOMAIN DiskFiles[file_path] :
        /\ ContainsHeader(DiskFiles[file_path][k])
        /\ \A j \in 1..(k - 1) : ~ContainsHeader(DiskFiles[file_path][j])
        /\ \A j \in (k + 1)..Len(DiskFiles[file_path]) :
               ~ValidRow(DiskFiles[file_path][j])

\* the finished signals emitted and not yet handled, and the one handled last
Signals ==
    { events[k] : k \in DOMAIN events }
        \cup (IF last_finished = None THEN {} ELSE {last_finished})

Failure == "Failed to analyze data."

\* C5: for a file without a header the worker delivers the empty dict, never
\* a result, and once the receiver has handled it current_analysis is empty
\* and the failure is reported.
C5_NoHeaderDeliversNoResult ==
    /\ \A e \in Signals :
           HeaderAbsent(e.sender.file_path) => e.analysis_data = EmptyDict
    /\ (last_finished # None /\ HeaderAbsent(last_finished.sender.file_path))
           => /\ current_analysis = EmptyDict
              /\ dialog = Failure

\* the signal of a header-less file handled after a successful analysis
C5_Witness ==
    /\ last_finished # None
    /\ HeaderAbsent(last_finished.sender.file_path)
    /\ widgets.save_btn
    /\ current_analysis = EmptyDict

\* C6 as stated: a file with a header and no valid rows yields a well-formed
\* result with data_points = 0 and sample_rate = 0, and no failure report.
C6_HeaderOnlyGivesZeroMetrics ==
    /\ \A e \in Signals :
           HeaderWithoutRows(e.sender.file_path) =>
               /\ Truthy(e.analysis_data)
               /\ e.analysis_data.metadata.data_points = 0
               /\ e.analysis_data.metadata.sample_rate = Rat(0, 1)
    /\ (last_finished # None
            /\ HeaderWithoutRows(last_finished.sender.file_path))
           => dialog # Failure

\* C7 as stated: the outcome for a file with a header and no valid rows
\* differs from the outcome for a file without a header.
C7_EmptyDistinctFromNoHeader ==
    \A e1, e2 \in Signals :
        (HeaderAbsent(e1.sender.file_path)
            /\ HeaderWithoutRows(e2.sender.file_path))
            => e1.analysis_data # e2.analysis_data

\* the dict the worker analysis_worker refers to emits
LatestResult ==
    run(analysis_worker.file_path, analysis_worker.trigger_current)

\* C22: when analyses have been started, also one while an earlier worker
\* was still running, and every worker has finished and every finished
\* signal has been handled, current_analysis is the result of the analysis
\* started last, in whichever order the signals arrived.
C22_LatestStartedWins ==
    (analysis_worker # None /\ workers = <<>> /\ events = <<>>) =>
        current_analysis = LatestResult

====
